---- MODULE Spec2Model ----
(***************************************************************************)
(* The layer/canvas editing core of index.tsx: the layer stack             *)
(* (canvasImages, activeImageId), the pointer gesture state (isDragging,   *)
(* isResizing, dragStart, activeHandle), the asynchronous image decodes    *)
(* of addImagesToCanvas and of the add-to-canvas button, and the panel     *)
(* commands of the layer list.                                             *)
(*                                                                         *)
(* Numbers.  The code computes in IEEE doubles.  Every file size, canvas   *)
(* size and pointer position drawn below is an even integer and the aspect *)
(* ratio of every bitmap is 2, so each quotient the code forms on these    *)
(* inputs is an integer and the double arithmetic is exact: the model      *)
(* computes the same values with integers (ExactArithmetic checks it).     *)
(***************************************************************************)
EXTENDS Integers, Sequences, FiniteSets, TLC

\* ------------------------------------------------------------------ bounds
MaxCreated == 2     \* layers created in one run (loaded, generated or duplicated)
MaxClock == 1       \* Date.now() reads 1..MaxClock
MaxBatch == 2       \* files in one batch add
MaxLoads == 1       \* batch adds / generated-image loads in flight at once
MaxMoves == 1       \* pointer moves that change a layer
MaxTouches == 2     \* contact points of a touch event
MaxRequests == 1    \* requests sent to the generation service in one run

\* ------------------------------------------------------- program constants
HANDLE_SIZE == 16
MinSize == 20
BatchOffset == 20
DuplicateOffset == 20

NoId == 0           \* activeImageId = null (Date.now() is never 0)
NoHandle == "none"  \* activeHandle = null
NoComposite == [width |-> 0, height |-> 0, calls |-> <<>>]   \* no temporary canvas
NoText == "none"
NoSizing == [op |-> "none"]   \* no image is being sized
NoMapping == [device |-> "none"]   \* no pointer event is being mapped
NoHit == [op |-> "none"]           \* no handle is being looked for
NoTarget == 0                      \* the press landed on no layer (objects count from 1)
Handles == <<"nw", "ne", "sw", "se">>

\* ------------------------------------------------------------------ inputs
\* The decoded bitmaps of the files the user picks: natural width x height.
Files ==
  { [name |-> <<"b">>, naturalWidth |-> 80, naturalHeight |-> 40] }

\* The bitmap the generation service returned (outputImage.src).
GeneratedImg == [naturalWidth |-> 80, naturalHeight |-> 40]

\* The entries of the aspect-ratio menu: logical width x height.
CanvasMenu ==
  { [width |-> 1344, height |-> 738], [width |-> 738, height |-> 1344],
    [width |-> 1024, height |-> 768], [width |-> 768, height |-> 1024],
    [width |-> 1024, height |-> 1024] }

DefaultCanvas == [width |-> 1024, height |-> 1024]

\* The entry the menu shows when the page is loaded.
StartMenu == { DefaultCanvas }

\* The entries of the widest canvases.
WideMenu == { c \in CanvasMenu : c.width > 1024 \/ c = DefaultCanvas }

\* The entries on which a centred file has an even x, so that the quotients of
\* a resize stay integers: all but 738 x 1344.
EvenMenu == { c \in CanvasMenu : c.width % 4 = 0 }

\* The pointer positions of the events, in logical canvas coordinates.  A file
\* of 80 x 40 is placed at (472, 492), the second of its batch and a duplicate
\* at (492, 512): the first position is the nw corner of the former, the last
\* the nw corner of the latter, and the middle one is inside both.
Positions ==
  { [x |-> 472, y |-> 492], [x |-> 512, y |-> 512], [x |-> 492, y |-> 512] }

\* The readings of Date.now().  It is the wall clock: two readings may be equal,
\* and the model puts no order on them.
ClockReadings == 1..MaxClock

Batches == UNION { [1..n -> Files] : n \in 1..MaxBatch }

VARIABLES
  canvasImages,    \* the layer stack, back to front
  activeImageId,   \* id of the selected layer, or NoId
  isDragging, isResizing, dragStart, activeHandle,
  canvas,          \* outpaintCanvas.width / .height
  loads,           \* image decodes in flight, one record per batch
  layerItems,      \* the <li> items renderLayerList built, as layer objects
  created,         \* history: the number of layer objects created so far
  issued,          \* history: the ids given to layers so far
  moves,           \* history: the pointer moves that changed a layer
  composite,       \* the temporary canvas of the last flatten, or NoComposite
  textOutput,      \* the message shown in the text output, or NoText
  requests,        \* the requests sent to the generation service, in order
  workspace,       \* the section setWorkspaceState shows: editor, loading, output
  sizing,          \* a reference image outside the stack and its drawn rectangle
  mapped,          \* a pointer event and the logical position computed for it
  stream,          \* the pointer stream the browser is delivering: none, mouse, touch
  grabbed,         \* history: the layer object the press of the open stream landed on
  hit,             \* a layer, a point and the handle getHandleAtPos finds there
  generateDisabled \* generateButton.disabled

stackVars == <<canvasImages, activeImageId>>
gestureVars == <<isDragging, isResizing, dragStart, activeHandle>>
editorVars == <<canvasImages, activeImageId, isDragging, isResizing, dragStart,
                activeHandle, canvas, loads, layerItems, created, issued, moves>>
outputVars == <<composite, textOutput, requests>>
vars == <<canvasImages, activeImageId, isDragging, isResizing, dragStart,
          activeHandle, canvas, loads, layerItems, created, issued, moves,
          composite, textOutput, requests, workspace, sizing, mapped, stream,
          grabbed, hit, generateDisabled>>

\* ----------------------------------------------------------------- helpers
Range(s) == { s[i] : i \in DOMAIN s }

\* Array.prototype.findIndex on the id: the first index, 0 when absent.
FindIndex(images, id) ==
  IF \E i \in DOMAIN images : images[i].id = id
  THEN CHOOSE i \in DOMAIN images :
         /\ images[i].id = id
         /\ \A j \in DOMAIN images : images[j].id = id => i <= j
  ELSE 0

\* Array.prototype.splice(i, 1): the sequence without its i-th element.
RemoveAt(s, i) == SubSeq(s, 1, i - 1) \o SubSeq(s, i + 1, Len(s))

\* Array.prototype.splice(i, 0, e) with a 0-based i: e becomes element i + 1.
InsertAt(s, i, e) == SubSeq(s, 1, i) \o <<e>> \o SubSeq(s, i + 1, Len(s))

\* The objects of the stack, for the <li> closures of renderLayerList.
RenderLayerList(images) == [i \in DOMAIN images |-> images[i].obj]

NumPending ==
  Cardinality({ <<b, i>> \in (DOMAIN loads) \X (1..MaxBatch) :
                  i \in DOMAIN loads[b].status /\ loads[b].status[i] = "pending" })


\* ------------------------------------------------------------ editor state
\* The state the handlers of the editor read and write, as one value.
Editor ==
  [ canvasImages |-> canvasImages, activeImageId |-> activeImageId,
    isDragging |-> isDragging, isResizing |-> isResizing,
    dragStart |-> dragStart, activeHandle |-> activeHandle ]

\* The editor state ed becomes the state of the program.
Becomes(ed) ==
  /\ canvasImages' = ed.canvasImages
  /\ activeImageId' = ed.activeImageId
  /\ isDragging' = ed.isDragging
  /\ isResizing' = ed.isResizing
  /\ dragStart' = ed.dragStart
  /\ activeHandle' = ed.activeHandle

\* ------------------------------------------------------------ quotients
RECURSIVE Gcd(_, _)
Gcd(a, b) == IF b = 0 THEN a ELSE Gcd(b, a % b)

\* The number n / d, n >= 0 and d > 0, in lowest terms: the quotients of the
\* scaling code are kept exact.
Q(n, d) == [n |-> n \div Gcd(n, d), d |-> d \div Gcd(n, d)]

QLeq(a, b) == a.n * b.d <= b.n * a.d
QEq(a, b) == a.n * b.d = b.n * a.d

\* (total - a) / 2, the offset that centres a length a in a length total.
QCentre(total, a) == Q(total * a.d - a.n, 2 * a.d)

\* ------------------------------------------------------- layer insertion
\* Mutant of the scaling of a new layer: the limiting side is chosen the wrong
\* way round.
FitSizeSwapped(img, maxWidth, maxHeight) ==
  IF img.naturalWidth > maxWidth \/ img.naturalHeight > maxHeight
  THEN IF maxWidth * img.naturalHeight <= img.naturalWidth * maxHeight
       THEN [width |-> Q(maxHeight * img.naturalWidth, img.naturalHeight),
             height |-> Q(maxHeight, 1)]
       ELSE [width |-> Q(maxWidth, 1),
             height |-> Q(maxWidth * img.naturalHeight, img.naturalWidth)]
  ELSE [width |-> Q(img.naturalWidth, 1), height |-> Q(img.naturalHeight, 1)]

\* The scaling of img.onload: width and height of the new layer, as quotients.
\* maxWidth / maxHeight > imgAspectRatio is compared by cross multiplication.
FitSize(img, maxWidth, maxHeight) ==
  IF img.naturalWidth > maxWidth \/ img.naturalHeight > maxHeight
  THEN IF maxWidth * img.naturalHeight > img.naturalWidth * maxHeight
       THEN [width |-> Q(maxHeight * img.naturalWidth, img.naturalHeight),
             height |-> Q(maxHeight, 1)]
       ELSE [width |-> Q(maxWidth, 1),
             height |-> Q(maxWidth * img.naturalHeight, img.naturalWidth)]
  ELSE [width |-> Q(img.naturalWidth, 1), height |-> Q(img.naturalHeight, 1)]

\* The displayed size of a new layer: the natural size, scaled down to fit the
\* canvas when it is larger (img.onload of addImagesToCanvas and of the
\* add-to-canvas button).
FitToCanvas(img, maxWidth, maxHeight) ==
  LET size == FitSize(img, maxWidth, maxHeight) IN
  [width |-> size.width.n \div size.width.d,
   height |-> size.height.n \div size.height.d]

\* The CanvasImage object literal of an img.onload; index is 0-based.
NewImage(id, name, img, index) ==
  LET size == FitToCanvas(img, canvas.width, canvas.height) IN
  [ obj |-> created + 1,
    id |-> id,
    name |-> name,
    img |-> img,
    x |-> (canvas.width - size.width) \div 2 + index * BatchOffset,
    y |-> (canvas.height - size.height) \div 2 + index * BatchOffset,
    width |-> size.width,
    height |-> size.height,
    isVisible |-> TRUE,
    isLocked |-> FALSE ]

\* addImagesToCanvas up to its await: one decode is started per file.  The
\* canvas has a size from main() on, so the size fallback is not taken.
AddImagesToCanvas(files) ==
  /\ loads' = Append(loads, [kind |-> "batch", files |-> files,
                             status |-> [i \in DOMAIN files |-> "pending"]])
  /\ UNCHANGED <<stackVars, gestureVars, canvas, layerItems, created, issued>>

\* A batch whose decodes have all ended is dropped from the decodes in flight.
Settle(ls, b) ==
  IF \E i \in DOMAIN ls[b].status : ls[b].status[i] = "pending"
  THEN ls
  ELSE RemoveAt(ls, b)

\* img.onload of file i of batch b, followed by the continuation of
\* addImagesToCanvas after its await when this was the last decode of a batch
\* in which no decode failed (Promise.all fulfils in the same task).
ImgOnload(b, i, t) ==
  /\ b \in DOMAIN loads /\ loads[b].kind = "batch"
  /\ i \in DOMAIN loads[b].status /\ loads[b].status[i] = "pending"
  /\   LET file == loads[b].files[i]
           newImage == NewImage(t + (i - 1), file.name,
                                [naturalWidth |-> file.naturalWidth,
                                 naturalHeight |-> file.naturalHeight], i - 1)
           status == [loads[b].status EXCEPT ![i] = "loaded"]
           images == Append(canvasImages, newImage)
       IN /\ canvasImages' = images
          /\ activeImageId' = newImage.id
          /\ created' = created + 1
          /\ issued' = issued \cup {newImage.id}
          /\ loads' = Settle([loads EXCEPT ![b].status = status], b)
          /\ layerItems' = IF \A j \in DOMAIN status : status[j] = "loaded"
                           THEN RenderLayerList(images)
                           ELSE layerItems
  /\ UNCHANGED <<gestureVars, canvas>>

\* Mutant of img.onerror: the failure of a decode takes the topmost layer off
\* the stack.
ImgOnerrorDropsTop(b, i) ==
  /\ b \in DOMAIN loads /\ loads[b].kind = "batch"
  /\ i \in DOMAIN loads[b].status /\ loads[b].status[i] = "pending"
  /\ loads' = Settle([loads EXCEPT ![b].status[i] = "failed"], b)
  /\ canvasImages' = SubSeq(canvasImages, 1, Len(canvasImages) - 1)
  /\ UNCHANGED <<activeImageId, gestureVars, canvas, layerItems, created, issued>>

\* img.onerror of file i of batch b: the batch's Promise.all rejects, so the
\* code after the await never runs for this batch; its other decodes go on.
ImgOnerror(b, i) ==
  /\ b \in DOMAIN loads /\ loads[b].kind = "batch"
  /\ i \in DOMAIN loads[b].status /\ loads[b].status[i] = "pending"
  /\ loads' = Settle([loads EXCEPT ![b].status[i] = "failed"], b)
  /\ UNCHANGED <<stackVars, gestureVars, canvas, layerItems, created, issued>>

\* The add-to-canvas button: starts the decode of the generated image.
AddToCanvasClick ==
  /\ loads' = Append(loads, [kind |-> "generated", files |-> <<>>,
                             status |-> <<"pending">>])
  /\ UNCHANGED <<stackVars, gestureVars, canvas, layerItems, created, issued>>

\* img.onload of the add-to-canvas button.
GeneratedImgOnload(b, t) ==
  /\ b \in DOMAIN loads /\ loads[b].kind = "generated"
  /\   LET newImage == NewImage(t, <<"Generated", "Image">>, GeneratedImg, 0)
           images == Append(canvasImages, newImage)
       IN /\ canvasImages' = images
          /\ activeImageId' = newImage.id
          /\ created' = created + 1
          /\ issued' = issued \cup {newImage.id}
          /\ layerItems' = RenderLayerList(images)
  /\ loads' = RemoveAt(loads, b)
  /\ workspace' = "editor"
  /\ generateDisabled' = FALSE
  /\ UNCHANGED <<gestureVars, canvas>>

\* ------------------------------------------------------- panel commands
\* duplicateLayer(id), with the reading t of Date.now(): the stack and the
\* active id it leaves.  obj is the identity of the object literal it builds.
DuplicateLayer(ed, id, t, obj) ==
  LET images == ed.canvasImages
      originalIndex == FindIndex(images, id)
  IN IF originalIndex = 0
     THEN ed
     ELSE LET imageToDuplicate == images[originalIndex]
              newImage == [imageToDuplicate EXCEPT
                             !.obj = obj,
                             !.id = t,
                             !.x = imageToDuplicate.x + DuplicateOffset,
                             !.y = imageToDuplicate.y + DuplicateOffset,
                             !.name = Append(imageToDuplicate.name, "copy")]
          IN [ed EXCEPT !.canvasImages = InsertAt(images, originalIndex, newImage),
                        !.activeImageId = newImage.id]

\* Mutant of deleteLayer: the active id is kept when its layer is deleted.
DeleteLayerKeepsActive(ed, id) ==
  [ed EXCEPT
     !.canvasImages = SelectSeq(ed.canvasImages, LAMBDA img : img.id # id)]

\* deleteLayer(id): the stack and the active id it leaves.
DeleteLayer(ed, id) ==
  [ed EXCEPT
     !.canvasImages = SelectSeq(ed.canvasImages, LAMBDA img : img.id # id),
     !.activeImageId = IF ed.activeImageId = id THEN NoId ELSE ed.activeImageId]

\* The duplicate button of the layer panel.
DuplicateLayerClick(t) ==
  /\ IF activeImageId # NoId /\ FindIndex(canvasImages, activeImageId) # 0
     THEN /\ Becomes(DuplicateLayer(Editor, activeImageId, t, created + 1))
          /\ created' = created + 1
          /\ issued' = issued \cup {t}
          /\ layerItems' = RenderLayerList(canvasImages')
     ELSE UNCHANGED <<stackVars, gestureVars, layerItems, created, issued>>
  /\ UNCHANGED <<canvas, loads>>

\* The delete button of the layer panel.
DeleteLayerClick ==
  /\ IF activeImageId # NoId
     THEN /\ Becomes(DeleteLayer(Editor, activeImageId))
          /\ layerItems' = RenderLayerList(canvasImages')
     ELSE UNCHANGED <<stackVars, gestureVars, layerItems>>
  /\ UNCHANGED <<canvas, loads, created, issued>>

\* The keydown listener: Delete or Backspace outside a text input.
KeyDelete ==
  /\ IF activeImageId # NoId
     THEN /\ Becomes(DeleteLayer(Editor, activeImageId))
          /\ layerItems' = RenderLayerList(canvasImages')
     ELSE UNCHANGED <<stackVars, gestureVars, layerItems>>
  /\ UNCHANGED <<canvas, loads, created, issued>>

\* Mutant of the clear-canvas button: it puts the canvas back to its first size.
ClearCanvasResetsSize ==
  /\ canvasImages' = <<>>
  /\ activeImageId' = NoId
  /\ layerItems' = RenderLayerList(<<>>)
  /\ canvas' = DefaultCanvas
  /\ UNCHANGED <<gestureVars, loads, created, issued>>

\* The clear-canvas button.
ClearCanvas ==
  /\ canvasImages' = <<>>
  /\ activeImageId' = NoId
  /\ layerItems' = RenderLayerList(<<>>)
  /\ UNCHANGED <<gestureVars, canvas, loads, created, issued>>

\* The layer object a list item was built for, as an index of the stack.
IndexOfObj(images, o) == CHOOSE i \in DOMAIN images : images[i].obj = o

\* Click on the list item of layer object o: it becomes the active layer.
LayerItemClick(o) ==
  /\ o \in Range(layerItems)
  /\ activeImageId' = canvasImages[IndexOfObj(canvasImages, o)].id
  /\ layerItems' = RenderLayerList(canvasImages)
  /\ UNCHANGED <<canvasImages, gestureVars, canvas, loads, created, issued>>

\* The visibility button of the list item of layer object o.
VisibilityClick(o) ==
  /\ o \in Range(layerItems)
  /\ LET k == IndexOfObj(canvasImages, o) IN
       canvasImages' = [canvasImages EXCEPT ![k].isVisible = ~@]
  /\ layerItems' = RenderLayerList(canvasImages')
  /\ UNCHANGED <<activeImageId, gestureVars, canvas, loads, created, issued>>

\* The lock button of the list item of layer object o.
LockClick(o) ==
  /\ o \in Range(layerItems)
  /\ LET k == IndexOfObj(canvasImages, o) IN
       canvasImages' = [canvasImages EXCEPT ![k].isLocked = ~@]
  /\ layerItems' = RenderLayerList(canvasImages')
  /\ UNCHANGED <<activeImageId, gestureVars, canvas, loads, created, issued>>

\* The stack the drop listener of the layer list assigns: the item of
\* draggedId was dropped on the item of targetId.
DropOrder(images, draggedId, targetId) ==
  LET draggedImage == images[FindIndex(images, draggedId)]
      items == SelectSeq(images, LAMBDA img : img.id # draggedId)
      targetIndex == FindIndex(items, targetId) - 1
  IN InsertAt(items, targetIndex + 1, draggedImage)

\* The drop listener of the layer list: the item of draggedId is dropped on
\* the item of targetId.
LayerListDrop(draggedId, targetId) ==
  /\ IF draggedId = targetId \/ FindIndex(canvasImages, draggedId) = 0
     THEN UNCHANGED <<canvasImages, layerItems>>
     ELSE LET images == DropOrder(canvasImages, draggedId, targetId)
          IN /\ canvasImages' = images
             /\ layerItems' = RenderLayerList(images)
  /\ UNCHANGED <<activeImageId, gestureVars, canvas, loads, created, issued>>

\* The change listener of the aspect-ratio menu.
SetupCanvasDimensions(choice) ==
  /\ canvas' = choice
  /\ UNCHANGED <<stackVars, gestureVars, loads, layerItems, created, issued>>


\* ------------------------------------------------------------- geometry
\* getHandlePositions(image): the four corners.
GetHandlePositions(image) ==
  [ nw |-> [x |-> image.x, y |-> image.y],
    ne |-> [x |-> image.x + image.width, y |-> image.y],
    sw |-> [x |-> image.x, y |-> image.y + image.height],
    se |-> [x |-> image.x + image.width, y |-> image.y + image.height] ]

\* The test of getHandleAtPos for one handle: the hit box has side
\* HANDLE_SIZE * 1.5, centred on the corner (both sides doubled here).
InHandleBox(handle, x, y) ==
  /\ 2 * x >= 2 * handle.x - (HANDLE_SIZE * 3) \div 2
  /\ 2 * x <= 2 * handle.x + (HANDLE_SIZE * 3) \div 2
  /\ 2 * y >= 2 * handle.y - (HANDLE_SIZE * 3) \div 2
  /\ 2 * y <= 2 * handle.y + (HANDLE_SIZE * 3) \div 2

\* Mutant of getHandleAtPos: the last handle whose hit box holds the point.
GetHandleAtPosLast(image, x, y) ==
  LET handles == GetHandlePositions(image)
      hits == { k \in DOMAIN Handles : InHandleBox(handles[Handles[k]], x, y) }
  IN IF hits = {} THEN NoHandle
     ELSE Handles[CHOOSE k \in hits : \A j \in hits : j <= k]

\* getHandleAtPos(image, x, y): the first handle, in the order nw, ne, sw, se,
\* whose hit box holds the point; NoHandle when there is none.
GetHandleAtPos(image, x, y) ==
  LET handles == GetHandlePositions(image)
      hits == { k \in DOMAIN Handles : InHandleBox(handles[Handles[k]], x, y) }
  IN IF hits = {} THEN NoHandle
     ELSE Handles[CHOOSE k \in hits : \A j \in hits : k <= j]

\* The rectangle test of handleInteractionStart.
HitsImage(image, pos) ==
  /\ image.isVisible
  /\ pos.x >= image.x
  /\ pos.x <= image.x + image.width
  /\ pos.y >= image.y
  /\ pos.y <= image.y + image.height

\* Mutant of the loop: it runs from the bottom of the stack up.
BottommostHit(images, pos) ==
  LET hits == { i \in DOMAIN images : HitsImage(images[i], pos) }
  IN IF hits = {} THEN 0 ELSE CHOOSE i \in hits : \A j \in hits : i <= j

\* The loop of handleInteractionStart, from the top of the stack down: the index
\* of the first image the point hits, 0 when it hits none.
TopmostHit(images, pos) ==
  LET hits == { i \in DOMAIN images : HitsImage(images[i], pos) }
  IN IF hits = {} THEN 0 ELSE CHOOSE i \in hits : \A j \in hits : j <= i

\* --------------------------------------------------- pointer interaction
\* Mutant of the reordering: unshift in place of push.
BringToBack(images, i) == <<images[i]>> \o RemoveAt(images, i)

\* const [clickedImage] = canvasImages.splice(i, 1); canvasImages.push(clickedImage).
BringToFront(images, i) == Append(RemoveAt(images, i), images[i])

\* Mutant of handleInteractionStart: the layer that is hit is selected and
\* dragged where it is in the stack.
HandleInteractionStartInPlace(ed, pos) ==
  LET images == ed.canvasImages
      a == FindIndex(images, ed.activeImageId)
      tryHandle == a # 0 /\ images[a].isVisible /\ ~images[a].isLocked
      handle == IF tryHandle
                THEN GetHandleAtPos(images[a], pos.x, pos.y)
                ELSE ed.activeHandle
      i == TopmostHit(images, pos)
  IN IF tryHandle /\ handle # NoHandle
     THEN [ed EXCEPT !.activeHandle = handle, !.isResizing = TRUE]
     ELSE IF i = 0
     THEN [ed EXCEPT !.activeHandle = handle, !.activeImageId = NoId]
     ELSE IF images[i].isLocked
     THEN [ed EXCEPT !.activeHandle = handle, !.activeImageId = images[i].id]
     ELSE [ed EXCEPT !.activeHandle = handle,
                     !.activeImageId = images[i].id,
                     !.isDragging = TRUE,
                     !.dragStart = [x |-> pos.x - images[i].x,
                                    y |-> pos.y - images[i].y]]

\* Mutant of handleInteractionStart: the lock of the layer that is hit is not
\* tested.
HandleInteractionStartAnyLock(ed, pos) ==
  LET images == ed.canvasImages
      a == FindIndex(images, ed.activeImageId)
      tryHandle == a # 0 /\ images[a].isVisible /\ ~images[a].isLocked
      handle == IF tryHandle
                THEN GetHandleAtPos(images[a], pos.x, pos.y)
                ELSE ed.activeHandle
      i == TopmostHit(images, pos)
  IN IF tryHandle /\ handle # NoHandle
     THEN [ed EXCEPT !.activeHandle = handle, !.isResizing = TRUE]
     ELSE IF i = 0
     THEN [ed EXCEPT !.activeHandle = handle, !.activeImageId = NoId]
     ELSE [ed EXCEPT !.activeHandle = handle,
                     !.activeImageId = images[i].id,
                     !.isDragging = TRUE,
                     !.dragStart = [x |-> pos.x - images[i].x,
                                    y |-> pos.y - images[i].y],
                     !.canvasImages = BringToFront(images, i)]

\* Mutant of handleInteractionStart: the handles of the active layer are
\* tested whether or not it is locked.
HandleInteractionStartLockedHandle(ed, pos) ==
  LET images == ed.canvasImages
      a == FindIndex(images, ed.activeImageId)
      tryHandle == a # 0 /\ images[a].isVisible
      handle == IF tryHandle
                THEN GetHandleAtPos(images[a], pos.x, pos.y)
                ELSE ed.activeHandle
      i == TopmostHit(images, pos)
  IN IF tryHandle /\ handle # NoHandle
     THEN [ed EXCEPT !.activeHandle = handle, !.isResizing = TRUE]
     ELSE IF i = 0
     THEN [ed EXCEPT !.activeHandle = handle, !.activeImageId = NoId]
     ELSE IF images[i].isLocked
     THEN [ed EXCEPT !.activeHandle = handle, !.activeImageId = images[i].id]
     ELSE [ed EXCEPT !.activeHandle = handle,
                     !.activeImageId = images[i].id,
                     !.isDragging = TRUE,
                     !.dragStart = [x |-> pos.x - images[i].x,
                                    y |-> pos.y - images[i].y],
                     !.canvasImages = BringToFront(images, i)]

\* handleInteractionStart(pos): the editor state it leaves.
HandleInteractionStart(ed, pos) ==
  LET images == ed.canvasImages
      a == FindIndex(images, ed.activeImageId)
      tryHandle == a # 0 /\ images[a].isVisible /\ ~images[a].isLocked
      handle == IF tryHandle
                THEN GetHandleAtPos(images[a], pos.x, pos.y)
                ELSE ed.activeHandle
      i == TopmostHit(images, pos)
  IN IF tryHandle /\ handle # NoHandle
     THEN [ed EXCEPT !.activeHandle = handle, !.isResizing = TRUE]
     ELSE IF i = 0
     THEN [ed EXCEPT !.activeHandle = handle, !.activeImageId = NoId]
     ELSE IF images[i].isLocked
     THEN [ed EXCEPT !.activeHandle = handle, !.activeImageId = images[i].id]
     ELSE [ed EXCEPT !.activeHandle = handle,
                     !.activeImageId = images[i].id,
                     !.isDragging = TRUE,
                     !.dragStart = [x |-> pos.x - images[i].x,
                                    y |-> pos.y - images[i].y],
                     !.canvasImages = BringToFront(images, i)]

\* Mutant of the resize: a size is committed as soon as it is positive.
ResizeImageAnyPositive(image, handle, pos) ==
  LET originalRight == image.x + image.width
      originalBottom == image.y + image.height
      east == handle \in {"ne", "se"}
      west == handle \in {"nw", "sw"}
      north == handle \in {"nw", "ne"}
      newWidth == IF east THEN pos.x - image.x ELSE originalRight - pos.x
      newHeight == (newWidth * image.img.naturalHeight) \div image.img.naturalWidth
      commit == newWidth > 0 /\ newHeight > 0
  IN [image EXCEPT
        !.y = IF north THEN originalBottom - newHeight ELSE @,
        !.x = IF west THEN originalRight - newWidth ELSE @,
        !.width = IF commit THEN newWidth ELSE @,
        !.height = IF commit THEN newHeight ELSE @]

\* Mutant of the resize: the aspect ratio is that of the displayed size.
ResizeImageDisplayedRatio(image, handle, pos) ==
  LET originalRight == image.x + image.width
      originalBottom == image.y + image.height
      east == handle \in {"ne", "se"}
      west == handle \in {"nw", "sw"}
      north == handle \in {"nw", "ne"}
      newWidth == IF east THEN pos.x - image.x ELSE originalRight - pos.x
      newHeight == (newWidth * image.height) \div image.width
      commit == newWidth > MinSize /\ newHeight > MinSize
  IN [image EXCEPT
        !.y = IF north THEN originalBottom - newHeight ELSE @,
        !.x = IF west THEN originalRight - newWidth ELSE @,
        !.width = IF commit THEN newWidth ELSE @,
        !.height = IF commit THEN newHeight ELSE @]

\* The resize branch of handleInteractionMove for the active image: its
\* geometry after the move.  newHeight = newWidth / aspectRatio.
ResizeImage(image, handle, pos) ==
  LET originalRight == image.x + image.width
      originalBottom == image.y + image.height
      east == handle \in {"ne", "se"}
      west == handle \in {"nw", "sw"}
      north == handle \in {"nw", "ne"}
      newWidth == IF east THEN pos.x - image.x ELSE originalRight - pos.x
      newHeight == (newWidth * image.img.naturalHeight) \div image.img.naturalWidth
      commit == newWidth > MinSize /\ newHeight > MinSize
  IN [image EXCEPT
        !.y = IF north THEN originalBottom - newHeight ELSE @,
        !.x = IF west THEN originalRight - newWidth ELSE @,
        !.width = IF commit THEN newWidth ELSE @,
        !.height = IF commit THEN newHeight ELSE @]

\* The drag branch of handleInteractionMove.
DragImage(image, offset, pos) ==
  [image EXCEPT !.x = pos.x - offset.x, !.y = pos.y - offset.y]

\* Mutant of handleInteractionMove: the lock of the active image is not tested.
HandleInteractionMoveNoLock(ed, pos) ==
  LET images == ed.canvasImages
      a == FindIndex(images, ed.activeImageId)
  IN IF a = 0
     THEN ed
     ELSE IF ed.isResizing /\ ed.activeHandle # NoHandle
     THEN [ed EXCEPT !.canvasImages[a] = ResizeImage(@, ed.activeHandle, pos)]
     ELSE IF ed.isDragging
     THEN [ed EXCEPT !.canvasImages[a] = DragImage(@, ed.dragStart, pos)]
     ELSE ed

\* handleInteractionMove(pos): the editor state it leaves.
HandleInteractionMove(ed, pos) ==
  LET images == ed.canvasImages
      a == FindIndex(images, ed.activeImageId)
  IN IF a = 0 \/ images[a].isLocked
     THEN ed
     ELSE IF ed.isResizing /\ ed.activeHandle # NoHandle
     THEN [ed EXCEPT !.canvasImages[a] = ResizeImage(@, ed.activeHandle, pos)]
     ELSE IF ed.isDragging
     THEN [ed EXCEPT !.canvasImages[a] = DragImage(@, ed.dragStart, pos)]
     ELSE ed

\* Mutant of handleInteractionEnd: the handle of the resize is kept.
HandleInteractionEndKeepsHandle(ed) ==
  [ed EXCEPT !.isDragging = FALSE, !.isResizing = FALSE]

\* handleInteractionEnd(): the editor state it leaves.
HandleInteractionEnd(ed) ==
  [ed EXCEPT !.isDragging = FALSE, !.isResizing = FALSE, !.activeHandle = NoHandle]

\* mousedown on the canvas; handleInteractionStart ends with renderLayerList.
HandleCanvasMouseDown(pos) ==
  /\ Becomes(HandleInteractionStart(Editor, pos))
  /\ layerItems' = RenderLayerList(canvasImages')
  /\ UNCHANGED <<canvas, loads, created, issued>>

\* Mutant of handleCanvasMouseMove: the active layer follows the pointer
\* whether or not a gesture is open.
MouseMoveFollows(ed, pos) ==
  LET a == FindIndex(ed.canvasImages, ed.activeImageId) IN
  IF a = 0 THEN ed
  ELSE [ed EXCEPT !.canvasImages[a] = DragImage(@, ed.dragStart, pos)]

\* handleCanvasMouseMove: the editor state it leaves (the cursor aside).
MouseMove(ed, pos) ==
  IF ed.isDragging \/ ed.isResizing THEN HandleInteractionMove(ed, pos) ELSE ed

\* mousemove on the document.
HandleCanvasMouseMove(pos) ==
  /\ Becomes(MouseMove(Editor, pos))
  /\ UNCHANGED <<canvas, loads, layerItems, created, issued>>

\* mouseup on the document.
HandleCanvasMouseUp ==
  /\ Becomes(HandleInteractionEnd(Editor))
  /\ UNCHANGED <<canvas, loads, layerItems, created, issued>>

\* handleCanvasTouchStart: the editor state it leaves after a touchstart with
\* `touches` contact points, the first at pos.
TouchStart(ed, touches, pos) ==
  IF touches > 1 THEN ed ELSE HandleInteractionStart(ed, pos)

\* Mutant of handleCanvasTouchMove: the number of contact points is not tested.
TouchMoveAnyTouches(ed, touches, pos) ==
  IF ed.isDragging \/ ed.isResizing THEN HandleInteractionMove(ed, pos) ELSE ed

\* handleCanvasTouchMove: the editor state it leaves.
TouchMove(ed, touches, pos) ==
  IF touches > 1 THEN ed
  ELSE IF ed.isDragging \/ ed.isResizing THEN HandleInteractionMove(ed, pos)
  ELSE ed

\* touchstart on the canvas with `touches` contact points, the first at pos.
HandleCanvasTouchStart(touches, pos) ==
  /\ Becomes(TouchStart(Editor, touches, pos))
  /\ layerItems' = IF touches > 1 THEN layerItems
                   ELSE RenderLayerList(canvasImages')
  /\ UNCHANGED <<canvas, loads, created, issued>>

\* touchmove on the document.
HandleCanvasTouchMove(touches, pos) ==
  /\ Becomes(TouchMove(Editor, touches, pos))
  /\ UNCHANGED <<canvas, loads, layerItems, created, issued>>

\* touchend on the document.
HandleCanvasTouchEnd ==
  /\ Becomes(HandleInteractionEnd(Editor))
  /\ UNCHANGED <<canvas, loads, layerItems, created, issued>>

\* ------------------------------------------------------------ composition
\* The models of the model menu.
Models == {"imagen", "gemini"}

\* What the generation service answers: a response with an image part, with
\* text only, with no candidate, or a rejected call.
Outcomes == {"image", "text", "empty", "rejected"}

\* The drawImage calls of the loop of editImage over the stack, back to front.
RECURSIVE PaintVisible(_)
PaintVisible(images) ==
  IF images = <<>>
  THEN <<>>
  ELSE LET image == Head(images)
           call == [img |-> image.img, x |-> image.x, y |-> image.y,
                    width |-> image.width, height |-> image.height]
       IN IF image.isVisible
          THEN <<call>> \o PaintVisible(Tail(images))
          ELSE PaintVisible(Tail(images))

\* The loop with locked images left out.
RECURSIVE PaintUnlocked(_)
PaintUnlocked(images) ==
  IF images = <<>>
  THEN <<>>
  ELSE LET image == Head(images)
           call == [img |-> image.img, x |-> image.x, y |-> image.y,
                    width |-> image.width, height |-> image.height]
       IN IF image.isVisible /\ ~image.isLocked
          THEN <<call>> \o PaintUnlocked(Tail(images))
          ELSE PaintUnlocked(Tail(images))

\* Mutant of the flatten: locked images are not painted.
FlattenUnlocked(images, cv) ==
  [width |-> cv.width, height |-> cv.height, calls |-> PaintUnlocked(images)]

\* The temporary canvas of editImage after its loop.
Flatten(images, cv) ==
  [width |-> cv.width, height |-> cv.height, calls |-> PaintVisible(images)]

\* The outputs of a submission, as one value.
Outputs ==
  [ composite |-> composite, textOutput |-> textOutput,
    requests |-> requests, workspace |-> workspace ]

\* A submission that sends a request: the workspace stays on loading.
Send(out, request) ==
  [out EXCEPT !.textOutput = NoText, !.workspace = "loading",
              !.requests = Append(@, request)]

\* Mutant of a refused submission: the output section is shown without the
\* message.
RefuseSilently(out, message) ==
  [out EXCEPT !.workspace = "output"]

\* A submission that a precondition refuses: the message is shown, and the
\* finally clause of handleGenerateClick shows the output section.
Refuse(out, message) ==
  [out EXCEPT !.textOutput = message, !.workspace = "output"]

\* Mutant of editImage: the stack is flattened and sent without the test for a
\* visible image.
EditImageUnchecked(images, cv, out) ==
  Send([out EXCEPT !.composite = Flatten(images, cv)],
       [kind |-> "compose", image |-> Flatten(images, cv), state |-> "sent"])

\* editImage, up to the request it sends.
EditImage(images, cv, out) ==
  IF \A i \in DOMAIN images : ~images[i].isVisible
  THEN Refuse(out, "NeedVisibleImage")
  ELSE Send([out EXCEPT !.composite = Flatten(images, cv)],
            [kind |-> "compose", image |-> Flatten(images, cv), state |-> "sent"])

\* generateImage, up to the request it sends.
GenerateImage(out, hasPrompt) ==
  IF ~hasPrompt
  THEN Refuse(out, "NeedDetails")
  ELSE Send(out, [kind |-> "imagen", image |-> NoComposite, state |-> "sent"])

\* generateWithGemini, up to the request it sends.
GenerateWithGemini(out, hasPrompt, hasReference) ==
  IF ~hasPrompt /\ ~hasReference
  THEN Refuse(out, "NeedPromptOrReference")
  ELSE Send(out, [kind |-> "generate", image |-> NoComposite, state |-> "sent"])

\* handleGenerateClick, up to the request it sends or to its end when a
\* precondition refuses the submission.
GenerateClick(images, cv, out, model, hasPrompt, hasReference) ==
  IF model = "imagen" THEN GenerateImage(out, hasPrompt)
  ELSE IF Len(images) > 0 THEN EditImage(images, cv, out)
  ELSE GenerateWithGemini(out, hasPrompt, hasReference)

\* The outputs out become the outputs of the program.
Shows(out) ==
  /\ composite' = out.composite
  /\ textOutput' = out.textOutput
  /\ requests' = out.requests
  /\ workspace' = out.workspace
  /\ generateDisabled' = (out.workspace = "loading")

\* Click on the generate button, which setWorkspaceState disables while the
\* workspace is loading.
HandleGenerateClick(model, hasPrompt, hasReference) ==
  /\ ~generateDisabled
  /\ Shows(GenerateClick(canvasImages, canvas, Outputs, model, hasPrompt, hasReference))
  /\ UNCHANGED <<editorVars, sizing, mapped, stream, grabbed, hit>>

\* The request in flight is answered or rejected: processGeminiResponse or the
\* catch clause of handleGenerateClick, then its finally clause.
ServiceSettles(outcome) ==
  /\ requests # <<>>
  /\ requests[Len(requests)].state = "sent"
  /\ requests' = [requests EXCEPT ![Len(requests)].state = "settled"]
  /\ textOutput' = CASE outcome = "image" -> NoText
                      [] outcome = "text" -> "ModelText"
                      [] outcome = "empty" -> "NoValidResponse"
                      [] OTHER -> "ErrorOccurred"
  /\ workspace' = "output"
  /\ generateDisabled' = FALSE
  /\ UNCHANGED <<editorVars, composite, sizing, mapped, stream, grabbed, hit>>

\* change on the model menu, which is outside the three sections of the
\* workspace: the listener is updateUI.
ModelSelectChange ==
  /\ generateDisabled' = FALSE
  /\ UNCHANGED <<editorVars, outputVars, workspace, sizing, mapped, stream, grabbed, hit>>

\* The back-to-editor buttons of the output section.
BackToEditor ==
  /\ workspace = "output"
  /\ workspace' = "editor"
  /\ generateDisabled' = FALSE
  /\ UNCHANGED <<editorVars, outputVars, sizing, mapped, stream, grabbed, hit>>

\* ------------------------------------------------------------- sizing
\* The natural sizes of the images that are sized: smaller than every canvas,
\* larger than every canvas, wide, tall, square, and of the size of a canvas.
ImageSizes ==
  { [naturalWidth |-> 80, naturalHeight |-> 40],
    [naturalWidth |-> 2000, naturalHeight |-> 1000],
    [naturalWidth |-> 1000, naturalHeight |-> 2000],
    [naturalWidth |-> 3000, naturalHeight |-> 2000],
    [naturalWidth |-> 1024, naturalHeight |-> 1024],
    [naturalWidth |-> 1344, naturalHeight |-> 738],
    [naturalWidth |-> 500, naturalHeight |-> 1500],
    [naturalWidth |-> 4000, naturalHeight |-> 300],
    [naturalWidth |-> 1, naturalHeight |-> 1],
    [naturalWidth |-> 1025, naturalHeight |-> 7],
    [naturalWidth |-> 700, naturalHeight |-> 1300],
    [naturalWidth |-> 2048, naturalHeight |-> 2048] }

\* Mutant of normalizeImageToBase64: the image covers the target.
NormalizeCover(img, targetWidth, targetHeight) ==
  LET wider == img.naturalWidth * targetHeight <= targetWidth * img.naturalHeight
      drawWidth == IF wider THEN Q(targetWidth, 1)
                   ELSE Q(targetHeight * img.naturalWidth, img.naturalHeight)
      drawHeight == IF wider
                    THEN Q(targetWidth * img.naturalHeight, img.naturalWidth)
                    ELSE Q(targetHeight, 1)
  IN [ x |-> QCentre(targetWidth, drawWidth),
       y |-> QCentre(targetHeight, drawHeight),
       width |-> drawWidth, height |-> drawHeight ]

\* img.onload of normalizeImageToBase64: the arguments of its drawImage call.
\* imgAspectRatio > canvasAspectRatio is compared by cross multiplication.
NormalizeImage(img, targetWidth, targetHeight) ==
  LET wider == img.naturalWidth * targetHeight > targetWidth * img.naturalHeight
      drawWidth == IF wider THEN Q(targetWidth, 1)
                   ELSE Q(targetHeight * img.naturalWidth, img.naturalHeight)
      drawHeight == IF wider
                    THEN Q(targetWidth * img.naturalHeight, img.naturalWidth)
                    ELSE Q(targetHeight, 1)
  IN [ x |-> QCentre(targetWidth, drawWidth),
       y |-> QCentre(targetHeight, drawHeight),
       width |-> drawWidth, height |-> drawHeight ]

\* The decode of a reference image ends: it is drawn on a canvas of the
\* target size.
NormalizeOnload ==
  /\ sizing.op = "pending"
  /\ sizing' = [sizing EXCEPT
                  !.op = "normalized",
                  !.rect = NormalizeImage(sizing.img, sizing.target.width,
                                          sizing.target.height)]
  /\ UNCHANGED <<editorVars, outputVars, workspace, mapped, stream, grabbed, hit,
                 generateDisabled>>

\* The decode of an image for the stack ends: the rectangle of the layer
\* img.onload builds for it on a canvas of the target size, file index 0.
InsertOnload ==
  /\ sizing.op = "pending"
  /\ LET size == FitSize(sizing.img, sizing.target.width, sizing.target.height) IN
       sizing' = [sizing EXCEPT
                    !.op = "inserted",
                    !.rect = [ x |-> QCentre(sizing.target.width, size.width),
                               y |-> QCentre(sizing.target.height, size.height),
                               width |-> size.width, height |-> size.height ]]
  /\ UNCHANGED <<editorVars, outputVars, workspace, mapped, stream, grabbed, hit,
                 generateDisabled>>

\* ------------------------------------------------------------ handle test
\* Sizes a layer can have after a committed resize (both sides above MinSize)
\* or after its insertion: near the side of a hit box and well above it.
LayerSizes ==
  { [width |-> 44, height |-> 22], [width |-> 48, height |-> 24],
    [width |-> 50, height |-> 25], [width |-> 80, height |-> 40],
    [width |-> 22, height |-> 44], [width |-> 21, height |-> 21] }

\* Where the layer of the handle test is.
HitCorner == [x |-> 100, y |-> 100]

\* The coordinates of the points of the handle test, on either axis: on and
\* around the sides of the hit boxes of the corners of these layers.
HitCoordinates == { 87, 88, 100, 110, 111, 112, 113, 124, 136, 150, 180, 192, 193 }

\* getHandleAtPos is called for the layer and the point.
HandleTest ==
  /\ hit.op = "pending"
  /\ hit' = [hit EXCEPT !.op = "tested",
                        !.handle = GetHandleAtPos(hit.image, hit.pos.x, hit.pos.y)]
  /\ UNCHANGED <<editorVars, outputVars, workspace, sizing, mapped, stream, grabbed,
                 generateDisabled>>

\* ---------------------------------------------------- coordinate mapping
\* getBoundingClientRect() of the canvas: where and how large it is displayed.
\* The displayed size need not have the aspect ratio of the logical size.
DisplayRects ==
  { [left |-> 0, top |-> 0, width |-> 512, height |-> 512],
    [left |-> 10, top |-> 20, width |-> 672, height |-> 369],
    [left |-> 33, top |-> 7, width |-> 300, height |-> 550],
    [left |-> 8, top |-> 64, width |-> 1, height |-> 700] }

\* clientX / clientY of the events; mousemove is heard on the document, so a
\* point may be left of or above the canvas.
ClientPoints ==
  { [clientX |-> 33, clientY |-> 64], [clientX |-> 137, clientY |-> 45],
    [clientX |-> 333, clientY |-> 250], [clientX |-> 500, clientY |-> 499],
    [clientX |-> 0, clientY |-> 0] }

\* The product of an integer and a quotient.
QTimes(k, q) == Q(k * q.n, q.d)

\* The quotient of two quotients, the second positive.
QOver(a, b) == Q(a.n * b.d, a.d * b.n)

\* Mutant of getTouchPos: both axes are scaled by scaleX.
GetTouchPosOneScale(e, rect, cv) ==
  LET scaleX == Q(cv.width, rect.width)
      touch == e.touches[1]
  IN [ x |-> QTimes(touch.clientX - rect.left, scaleX),
       y |-> QTimes(touch.clientY - rect.top, scaleX) ]

\* getMousePos(e), with the bounding rectangle and the logical size of the
\* canvas it reads.
GetMousePos(e, rect, cv) ==
  LET scaleX == Q(cv.width, rect.width)
      scaleY == Q(cv.height, rect.height)
  IN [ x |-> QTimes(e.clientX - rect.left, scaleX),
       y |-> QTimes(e.clientY - rect.top, scaleY) ]

\* getTouchPos(e): the same for the first contact point, e.touches[0].
GetTouchPos(e, rect, cv) ==
  LET scaleX == Q(cv.width, rect.width)
      scaleY == Q(cv.height, rect.height)
      touch == e.touches[1]
  IN [ x |-> QTimes(touch.clientX - rect.left, scaleX),
       y |-> QTimes(touch.clientY - rect.top, scaleY) ]

\* The way back, which the program does not have: a logical position divided
\* by the scale factors getMousePos used.
ToDisplay(pos, rect, cv) ==
  [ x |-> QOver(pos.x, Q(cv.width, rect.width)),
    y |-> QOver(pos.y, Q(cv.height, rect.height)) ]

\* A mouse event at the point is handled: its position is mapped.
MapMouseEvent ==
  /\ mapped.device = "pending"
  /\ mapped' = [mapped EXCEPT
                  !.device = "mouse",
                  !.pos = GetMousePos(mapped.point, mapped.rect, mapped.cv)]
  /\ UNCHANGED <<editorVars, outputVars, workspace, sizing, stream, grabbed, hit,
                 generateDisabled>>

\* A touch event with one contact at the point is handled.
MapTouchEvent ==
  /\ mapped.device = "pending"
  /\ mapped' = [mapped EXCEPT
                  !.device = "touch",
                  !.pos = GetTouchPos([touches |-> <<mapped.point>>],
                                      mapped.rect, mapped.cv)]
  /\ UNCHANGED <<editorVars, outputVars, workspace, sizing, stream, grabbed, hit,
                 generateDisabled>>

\* ------------------------------------------------------- specification
InitEditor ==
  /\ canvasImages = <<>>
  /\ activeImageId = NoId
  /\ isDragging = FALSE
  /\ isResizing = FALSE
  /\ dragStart = [x |-> 0, y |-> 0]
  /\ activeHandle = NoHandle
  /\ canvas = DefaultCanvas
  /\ loads = <<>>
  /\ layerItems = <<>>
  /\ created = 0
  /\ issued = {}
  /\ moves = 0
  /\ composite = NoComposite
  /\ textOutput = NoText
  /\ requests = <<>>
  /\ workspace = "editor"
  /\ generateDisabled = FALSE

\* The variables of the pointer stream and of the handle test before any event.
InitPointer == stream = "none" /\ grabbed = NoTarget /\ hit = NoHit

Init == InitEditor /\ sizing = NoSizing /\ mapped = NoMapping /\ InitPointer

\* The ids of the items of the layer list.
ListedIds ==
  { canvasImages[i].id :
      i \in { j \in DOMAIN canvasImages : canvasImages[j].obj \in Range(layerItems) } }

\* The bounds of a run: at most MaxCreated layers are created, at most MaxLoads
\* batches decode at once, and at most MaxMoves pointer moves change a layer.
CanCreate(n) == Len(loads) < MaxLoads /\ created + NumPending + n <= MaxCreated

CountMove ==
  /\ moves' = IF canvasImages' # canvasImages THEN moves + 1 ELSE moves
  /\ UNCHANGED <<outputVars, workspace, sizing, mapped, stream, grabbed, hit,
                 generateDisabled>>

\* A step that is no counted pointer move, submits no composition and sizes no
\* reference image.
Quiet == UNCHANGED <<moves, outputVars, sizing, mapped, stream, grabbed, hit>>

\* A quiet step that leaves the workspace section and the generate button as
\* they are.
Still == Quiet /\ UNCHANGED <<workspace, generateDisabled>>

\* A quiet step of a handler that calls updateUI when ran holds: updateUI
\* enables the generate button.
UpdateUIWhen(ran) ==
  /\ Quiet
  /\ UNCHANGED workspace
  /\ generateDisabled' = IF ran THEN FALSE ELSE generateDisabled

\* The decode of file i ends the batch b with every file loaded, so that the
\* code after the await of addImagesToCanvas runs.
CompletesBatch(b, i) ==
  \A j \in DOMAIN loads[b].status : j # i => loads[b].status[j] = "loaded"

Next ==
  \/ \E files \in Batches :
       CanCreate(Len(files)) /\ AddImagesToCanvas(files) /\ Still
  \/ \E b \in 1..MaxLoads, i \in 1..MaxBatch, t \in ClockReadings :
       ImgOnload(b, i, t) /\ UpdateUIWhen(CompletesBatch(b, i))
  \/ \E b \in 1..MaxLoads, i \in 1..MaxBatch : ImgOnerror(b, i) /\ Still
  \/ CanCreate(1) /\ AddToCanvasClick /\ Still
  \/ \E b \in 1..MaxLoads, t \in ClockReadings :
       GeneratedImgOnload(b, t) /\ Quiet
  \/ \E t \in ClockReadings :
       created + NumPending < MaxCreated /\ DuplicateLayerClick(t) /\ Still
  \/ DeleteLayerClick /\ UpdateUIWhen(activeImageId # NoId)
  \/ KeyDelete /\ UpdateUIWhen(activeImageId # NoId)
  \/ ClearCanvas /\ UpdateUIWhen(TRUE)
  \/ \E o \in Range(layerItems) : LayerItemClick(o) /\ Still
  \/ \E o \in Range(layerItems) : VisibilityClick(o) /\ Still
  \/ \E o \in Range(layerItems) : LockClick(o) /\ Still
  \/ \E d \in ListedIds, g \in ListedIds : LayerListDrop(d, g) /\ Still
  \/ \E choice \in StartMenu : SetupCanvasDimensions(choice) /\ Still
  \/ \E pos \in Positions : HandleCanvasMouseDown(pos) /\ Still
  \/ \E pos \in Positions :
       moves < MaxMoves /\ HandleCanvasMouseMove(pos) /\ CountMove
  \/ HandleCanvasMouseUp /\ Still
  \/ \E n \in 1..MaxTouches, pos \in Positions :
       HandleCanvasTouchStart(n, pos) /\ Still
  \/ \E n \in 1..MaxTouches, pos \in Positions :
       moves < MaxMoves /\ HandleCanvasTouchMove(n, pos) /\ CountMove
  \/ HandleCanvasTouchEnd /\ Still

\* Spec keeps the aspect-ratio menu on its entry (selecting it again is a
\* step); the pointer positions are those of layers on that canvas.
Spec == Init /\ [][Next]_vars

\* The editor with the aspect-ratio menu, without touch events and
\* without the buttons of the list items.
NextCanvas ==
  \/ \E files \in Batches :
       CanCreate(Len(files)) /\ AddImagesToCanvas(files) /\ Still
  \/ \E b \in 1..MaxLoads, i \in 1..MaxBatch, t \in ClockReadings :
       ImgOnload(b, i, t) /\ UpdateUIWhen(CompletesBatch(b, i))
  \/ \E b \in 1..MaxLoads, i \in 1..MaxBatch : ImgOnerror(b, i) /\ Still
  \/ CanCreate(1) /\ AddToCanvasClick /\ Still
  \/ \E b \in 1..MaxLoads, t \in ClockReadings :
       GeneratedImgOnload(b, t) /\ Quiet
  \/ \E t \in ClockReadings :
       created + NumPending < MaxCreated /\ DuplicateLayerClick(t) /\ Still
  \/ DeleteLayerClick /\ UpdateUIWhen(activeImageId # NoId)
  \/ ClearCanvas /\ UpdateUIWhen(TRUE)
  \/ \E choice \in EvenMenu : SetupCanvasDimensions(choice) /\ Still
  \/ \E pos \in Positions : HandleCanvasMouseDown(pos) /\ Still
  \/ \E pos \in Positions :
       moves < MaxMoves /\ HandleCanvasMouseMove(pos) /\ CountMove
  \/ HandleCanvasMouseUp /\ Still

SpecCanvas == Init /\ [][NextCanvas]_vars

\* The layer panel and the submission of the stack.  The panel and the file
\* input are in the editor section, which is shown when the workspace is editor.
NextCompose ==
  \/ \E files \in Batches :
       workspace = "editor" /\ CanCreate(Len(files)) /\ AddImagesToCanvas(files) /\ Still
  \/ \E b \in 1..MaxLoads, i \in 1..MaxBatch, t \in ClockReadings :
       ImgOnload(b, i, t) /\ UpdateUIWhen(CompletesBatch(b, i))
  \/ \E t \in ClockReadings :
       /\ workspace = "editor" /\ created + NumPending < MaxCreated
       /\ DuplicateLayerClick(t) /\ Still
  \/ workspace = "editor" /\ DeleteLayerClick /\ UpdateUIWhen(activeImageId # NoId)
  \/ workspace = "editor" /\ ClearCanvas /\ UpdateUIWhen(TRUE)
  \/ \E d \in ListedIds, g \in ListedIds :
       workspace = "editor" /\ LayerListDrop(d, g) /\ Still
  \/ \E o \in Range(layerItems) : workspace = "editor" /\ VisibilityClick(o) /\ Still
  \/ \E o \in Range(layerItems) : workspace = "editor" /\ LockClick(o) /\ Still
  \/ \E choice \in WideMenu :
       workspace = "editor" /\ SetupCanvasDimensions(choice) /\ Still
  \/ \E model \in Models, hasPrompt \in BOOLEAN, hasReference \in BOOLEAN :
       Len(requests) < MaxRequests /\ HandleGenerateClick(model, hasPrompt, hasReference)
  \/ \E outcome \in Outcomes : ServiceSettles(outcome)
  \/ BackToEditor
  \/ ModelSelectChange

SpecCompose == Init /\ [][NextCompose]_vars

\* The sizing of one image, of any of the natural sizes, for any target of the
\* aspect-ratio menu.
InitSizing ==
  /\ InitEditor
  /\ mapped = NoMapping
  /\ InitPointer
  /\ sizing \in { [op |-> "pending", img |-> img, target |-> target,
                    rect |-> [x |-> Q(0, 1), y |-> Q(0, 1),
                              width |-> Q(0, 1), height |-> Q(0, 1)]] :
                     img \in ImageSizes, target \in CanvasMenu }

NextSizing == NormalizeOnload \/ InsertOnload

SpecSizing == InitSizing /\ [][NextSizing]_vars

\* A step of a pointer stream that begins, goes on with s or ends (s = "none").
Streams(s) ==
  /\ stream' = s
  /\ UNCHANGED <<moves, outputVars, workspace, sizing, mapped, hit, generateDisabled>>

\* The layer object a press at pos lands on, as handleInteractionStart decides
\* it: the active layer when the point is on one of its handles, else the
\* topmost visible layer under the point when it is unlocked, else none.
Target(pos) ==
  LET a == FindIndex(canvasImages, activeImageId)
      i == TopmostHit(canvasImages, pos)
  IN IF /\ a # 0 /\ canvasImages[a].isVisible /\ ~canvasImages[a].isLocked
        /\ GetHandleAtPos(canvasImages[a], pos.x, pos.y) # NoHandle
     THEN canvasImages[a].obj
     ELSE IF i # 0 /\ ~canvasImages[i].isLocked THEN canvasImages[i].obj
     ELSE NoTarget

\* A stream s begins with a press at pos.
Begins(s, pos) == Streams(s) /\ grabbed' = Target(pos)

\* The open stream ends with an event the document hears.
Ends == Streams("none") /\ grabbed' = NoTarget

\* The touch is cancelled by the browser: touchcancel is sent in place of
\* touchend, and the document has no listener for it.
TouchCancel ==
  /\ stream = "touch"
  /\ stream' = "none"
  /\ grabbed' = NoTarget
  /\ UNCHANGED <<editorVars, outputVars, workspace, sizing, mapped, hit,
                 generateDisabled>>

\* The end of the pointer stream that is open: the button is released, the
\* touch is lifted or the touch is cancelled.
MouseStreamEnds == stream = "mouse" /\ HandleCanvasMouseUp /\ Ends

TouchStreamEnds ==
  \/ stream = "touch" /\ HandleCanvasTouchEnd /\ Ends
  \/ TouchCancel

\* The editor with its pointer streams: a stream begins with a mousedown or a
\* touchstart on the canvas, goes on with moves and ends with mouseup, touchend
\* or touchcancel.  A mousemove is also heard while no button is held.
NextGesture ==
  \/ \E files \in Batches :
       CanCreate(Len(files)) /\ AddImagesToCanvas(files) /\ Still
  \/ \E b \in 1..MaxLoads, i \in 1..MaxBatch, t \in ClockReadings :
       ImgOnload(b, i, t) /\ UpdateUIWhen(CompletesBatch(b, i))
  \/ \E o \in Range(layerItems) : LockClick(o) /\ Still
  \/ \E o \in Range(layerItems) : LayerItemClick(o) /\ Still
  \/ \E t \in ClockReadings :
       created + NumPending < MaxCreated /\ DuplicateLayerClick(t) /\ Still
  \/ KeyDelete /\ UpdateUIWhen(activeImageId # NoId)
  \/ \E pos \in Positions :
       stream = "none" /\ HandleCanvasMouseDown(pos) /\ Begins("mouse", pos)
  \/ \E pos \in Positions :
       /\ stream # "touch" /\ moves < MaxMoves
       /\ HandleCanvasMouseMove(pos) /\ CountMove
  \/ stream = "mouse" /\ HandleCanvasMouseUp /\ Ends
  \/ \E pos \in Positions :
       stream = "none" /\ HandleCanvasTouchStart(1, pos) /\ Begins("touch", pos)
  \/ \E n \in 1..MaxTouches, pos \in Positions :
       /\ stream = "touch" /\ moves < MaxMoves
       /\ HandleCanvasTouchMove(n, pos) /\ CountMove
  \/ stream = "touch" /\ HandleCanvasTouchEnd /\ Ends
  \/ TouchCancel

\* Every pointer stream ends: a button that is held is released, a touch is
\* lifted or cancelled.  Nothing makes the user start another gesture.
SpecGesture ==
  /\ Init
  /\ [][NextGesture]_vars
  /\ WF_vars(MouseStreamEnds)
  /\ WF_vars(TouchStreamEnds)

\* Files the user can tell apart by their names.
NamedFiles ==
  { [name |-> <<n>>, naturalWidth |-> 80, naturalHeight |-> 40] : n \in {"a", "b"} }

\* The batches of files with different names, in every order.
NamedBatches ==
  UNION { { files \in [1..n -> NamedFiles] :
              \A j, k \in 1..n : j # k => files[j].name # files[k].name } :
          n \in 1..MaxBatch }

\* Batch adds of named files and the panel of the layers they make.
NextBatch ==
  \/ \E files \in NamedBatches :
       CanCreate(Len(files)) /\ AddImagesToCanvas(files) /\ Still
  \/ \E b \in 1..MaxLoads, i \in 1..MaxBatch, t \in ClockReadings :
       ImgOnload(b, i, t) /\ UpdateUIWhen(CompletesBatch(b, i))
  \/ \E o \in Range(layerItems) : LayerItemClick(o) /\ Still
  \/ \E o \in Range(layerItems) : VisibilityClick(o) /\ Still
  \/ \E o \in Range(layerItems) : LockClick(o) /\ Still

SpecBatch == Init /\ [][NextBatch]_vars

\* The handle test of one layer, of any of the sizes, at any of the points.
InitHandles ==
  /\ InitEditor
  /\ sizing = NoSizing
  /\ mapped = NoMapping
  /\ stream = "none"
  /\ grabbed = NoTarget
  /\ hit \in { [op |-> "pending",
                 image |-> [x |-> HitCorner.x, y |-> HitCorner.y,
                            width |-> size.width, height |-> size.height],
                 pos |-> [x |-> x, y |-> y],
                 handle |-> NoHandle] :
                  size \in LayerSizes, x \in HitCoordinates, y \in HitCoordinates }

NextHandles == HandleTest

SpecHandles == InitHandles /\ [][NextHandles]_vars

\* The mapping of one pointer event, at any of the client points, for any
\* displayed rectangle and any logical size of the aspect-ratio menu.
InitMapping ==
  /\ InitEditor
  /\ sizing = NoSizing
  /\ InitPointer
  /\ mapped \in { [device |-> "pending", point |-> point, rect |-> rect,
                    cv |-> cv, pos |-> [x |-> Q(0, 1), y |-> Q(0, 1)]] :
                     point \in ClientPoints, rect \in DisplayRects,
                     cv \in CanvasMenu }

NextMapping == MapMouseEvent \/ MapTouchEvent

SpecMapping == InitMapping /\ [][NextMapping]_vars

\* Every list item belongs to a layer of the stack, and layer objects are distinct.
ModelSane ==
  /\ \A k \in DOMAIN layerItems : \E i \in DOMAIN canvasImages :
       canvasImages[i].obj = layerItems[k]
  /\ \A i, j \in DOMAIN canvasImages :
       canvasImages[i].obj = canvasImages[j].obj => i = j


\* -------------------------------------------------------------- properties
\* Pointer positions the properties try on every reachable state: those of the
\* events, the se corner of the first layer (552, 532), a point inside the two
\* layers of a batch (532, 522) and a point far from every layer.
Probes ==
  Positions \cup { [x |-> 552, y |-> 532], [x |-> 532, y |-> 522],
                   [x |-> 100, y |-> 100] }

\* Every quotient of the resize is an integer on the inputs of the model.
ExactArithmetic ==
  \A i \in DOMAIN canvasImages : \A pos \in Probes :
    LET image == canvasImages[i] IN
    /\ ((pos.x - image.x) * image.img.naturalHeight) % image.img.naturalWidth = 0
    /\ ((image.x + image.width - pos.x) * image.img.naturalHeight)
         % image.img.naturalWidth = 0

IdsOf(images) == { images[i].id : i \in DOMAIN images }

\* The layer object o of a stack, when it is there.
HasObj(images, o) == \E i \in DOMAIN images : images[i].obj = o
LayerOf(images, o) == images[CHOOSE i \in DOMAIN images : images[i].obj = o]

Geometry(image) == <<image.x, image.y, image.width, image.height>>

\* C1: no two layers of the stack ever have the same id, and a layer that is
\* created never gets an id that an earlier layer was given.
C1_IdsUniqueNeverReused ==
  [][ /\ \A i, j \in DOMAIN canvasImages' :
           canvasImages'[i].id = canvasImages'[j].id => i = j
      /\ \A i \in DOMAIN canvasImages' :
           canvasImages'[i].obj > created => canvasImages'[i].id \notin issued
    ]_vars

\* C2: the active id is null or the id of a layer of the stack.
C2_ActiveIdResolves ==
  activeImageId = NoId \/ activeImageId \in IdsOf(canvasImages)

\* A layer was deleted and a layer of the stack is selected.
C2_Witness ==
  /\ created = MaxCreated
  /\ Len(canvasImages) = 1
  /\ activeImageId = canvasImages[1].id

\* C3: no pointer start, move or end event changes x, y, width or height of a
\* layer that is locked when the event is handled, whatever the gesture state
\* and the active id are at that time.
C3_LockedGeometryFixed ==
  \A pos \in Probes :
    \A ed \in { HandleInteractionStart(Editor, pos),
                HandleInteractionMove(Editor, pos),
                HandleInteractionEnd(Editor) } :
      \A i \in DOMAIN canvasImages :
        canvasImages[i].isLocked =>
          /\ HasObj(ed.canvasImages, canvasImages[i].obj)
          /\ Geometry(LayerOf(ed.canvasImages, canvasImages[i].obj))
               = Geometry(canvasImages[i])

\* The active layer was dragged and then locked while the gesture is open.
C3_Witness ==
  /\ isDragging
  /\ moves > 0
  /\ \E i \in DOMAIN canvasImages :
       /\ canvasImages[i].id = activeImageId
       /\ canvasImages[i].isLocked


\* The corner of a layer opposite to a handle.
OppositeCorner(image, handle) ==
  [ x |-> IF handle \in {"nw", "sw"} THEN image.x + image.width ELSE image.x,
    y |-> IF handle \in {"nw", "ne"} THEN image.y + image.height ELSE image.y ]

\* C4: while a resize gesture is open, no step moves the corner of a layer that
\* is opposite to the grabbed handle, also when the move is rejected because
\* the size would fall to or below the minimum.
C4_PinnedCornerFixed ==
  [][ (isResizing /\ activeHandle # NoHandle
         /\ isResizing' /\ activeHandle' = activeHandle) =>
        \A i \in DOMAIN canvasImages :
          HasObj(canvasImages', canvasImages[i].obj) =>
            OppositeCorner(LayerOf(canvasImages', canvasImages[i].obj), activeHandle)
              = OppositeCorner(canvasImages[i], activeHandle)
    ]_vars

\* The width and height a resize move computes for a layer.
ComputedWidth(image, handle, pos) ==
  IF handle \in {"ne", "se"} THEN pos.x - image.x
  ELSE image.x + image.width - pos.x

ComputedHeight(image, handle, pos) ==
  (ComputedWidth(image, handle, pos) * image.img.naturalHeight)
    \div image.img.naturalWidth

\* C5: every layer has width > 0 and height > 0, also after any pointer move; a
\* move changes the size of a layer only to a width and a height above the
\* minimum, and a resize move whose computed width or height is not above the
\* minimum leaves the width and the height of the active layer as they were.
C5_SizesStayPositive ==
  /\ \A i \in DOMAIN canvasImages :
       canvasImages[i].width > 0 /\ canvasImages[i].height > 0
  /\ \A pos \in Probes :
       LET ed == HandleInteractionMove(Editor, pos)
           a == FindIndex(canvasImages, activeImageId)
       IN /\ Len(ed.canvasImages) = Len(canvasImages)
          /\ \A i \in DOMAIN canvasImages :
               LET old == canvasImages[i]
                   new == ed.canvasImages[i]
               IN /\ new.width > 0 /\ new.height > 0
                  /\ \/ new.width = old.width /\ new.height = old.height
                     \/ new.width > MinSize /\ new.height > MinSize
          /\ (a # 0 /\ isResizing /\ activeHandle # NoHandle
                /\ ~(ComputedWidth(canvasImages[a], activeHandle, pos) > MinSize
                       /\ ComputedHeight(canvasImages[a], activeHandle, pos) > MinSize))
               => /\ ed.canvasImages[a].width = canvasImages[a].width
                  /\ ed.canvasImages[a].height = canvasImages[a].height

\* A resize move was committed during the open resize gesture.
C5_Witness ==
  /\ isResizing
  /\ activeHandle # NoHandle
  /\ \E i \in DOMAIN canvasImages :
       /\ canvasImages[i].id = activeImageId
       /\ canvasImages[i].width # canvasImages[i].img.naturalWidth
       /\ canvasImages[i].width > MinSize

\* The rectangle of a layer holds a point.
Contains(image, pos) ==
  /\ image.x <= pos.x /\ pos.x <= image.x + image.width
  /\ image.y <= pos.y /\ pos.y <= image.y + image.height

\* The visible layers of the stack under a point.
VisibleUnder(pos) ==
  { i \in DOMAIN canvasImages :
      canvasImages[i].isVisible /\ Contains(canvasImages[i], pos) }

Highest(S) == CHOOSE i \in S : \A j \in S : j <= i

\* The press lands on a handle of the active layer, which is visible and unlocked.
OnActiveHandle(pos) ==
  LET a == FindIndex(canvasImages, activeImageId) IN
  /\ a # 0
  /\ canvasImages[a].isVisible
  /\ ~canvasImages[a].isLocked
  /\ GetHandleAtPos(canvasImages[a], pos.x, pos.y) # NoHandle

\* C6 as stated: a pointerDown at a point inside several visible layers makes
\* the topmost of them the active layer, whichever layer was active before.
C6_TopmostSelected ==
  \A pos \in Probes :
    Cardinality(VisibleUnder(pos)) >= 2 =>
      HandleInteractionStart(Editor, pos).activeImageId
        = canvasImages[Highest(VisibleUnder(pos))].id

\* C6 as amended: a pointerDown at a point inside several visible layers makes
\* the topmost of them the active layer, unless the point is on a resize handle
\* of the active layer and that layer is visible and unlocked: then the press
\* starts a resize and the active layer stays the active one.
C6_TopmostSelectedUnlessHandle ==
  \A pos \in Probes :
    Cardinality(VisibleUnder(pos)) >= 2 =>
      LET ed == HandleInteractionStart(Editor, pos) IN
      IF OnActiveHandle(pos)
      THEN ed.activeImageId = activeImageId /\ ed.isResizing
      ELSE ed.activeImageId = canvasImages[Highest(VisibleUnder(pos))].id

\* A press at a point inside two visible layers has just selected the upper one.
C6_Witness ==
  /\ isDragging
  /\ Len(canvasImages) >= 2
  /\ \E pos \in Positions :
       LET top == canvasImages[Len(canvasImages)] IN
       /\ Cardinality(VisibleUnder(pos)) >= 2
       /\ Highest(VisibleUnder(pos)) = Len(canvasImages)
       /\ activeImageId = top.id
       /\ dragStart = [x |-> pos.x - top.x, y |-> pos.y - top.y]

\* The press at pos lands on layer i: it is the topmost visible layer under the
\* point, and the point is on no handle of the active layer.
PressLandsOn(i, pos) ==
  /\ VisibleUnder(pos) # {}
  /\ Highest(VisibleUnder(pos)) = i
  /\ ~OnActiveHandle(pos)

\* C7: after a pointerDown at p0 on an unlocked visible layer and a pointerMove
\* to p, the layer is at its position at pointerDown plus (p - p0), with its
\* width and height unchanged; a locked layer is where it was.
C7_DragByPointerDelta ==
  \A p0 \in Probes, p \in Probes :
    \A i \in DOMAIN canvasImages :
      PressLandsOn(i, p0) =>
        LET before == canvasImages[i]
            ed == HandleInteractionMove(HandleInteractionStart(Editor, p0), p)
            after == LayerOf(ed.canvasImages, before.obj)
        IN /\ HasObj(ed.canvasImages, before.obj)
           /\ after.width = before.width
           /\ after.height = before.height
           /\ IF before.isLocked
              THEN after.x = before.x /\ after.y = before.y
              ELSE /\ after.x = before.x + (p.x - p0.x)
                   /\ after.y = before.y + (p.y - p0.y)

\* The order of the stack, as layer objects.
Order(images) == [i \in DOMAIN images |-> images[i].obj]

\* C8: a pointerDown that brings an unlocked layer to the front, an interaction
\* end and a second pointerDown on the same layer leave the stack in the order
\* the first pointerDown left.
C8_BringToFrontIdempotent ==
  \A p \in Probes, q \in Probes :
    \A i \in DOMAIN canvasImages :
      (PressLandsOn(i, p) /\ ~canvasImages[i].isLocked
         /\ Contains(canvasImages[i], q)) =>
        LET once == HandleInteractionStart(Editor, p)
            twice == HandleInteractionStart(HandleInteractionEnd(once), q)
        IN /\ once.canvasImages[Len(canvasImages)].obj = canvasImages[i].obj
           /\ Order(twice.canvasImages) = Order(once.canvasImages)

\* A press has brought the layer that was created first above a later one.
C8_Witness ==
  /\ isDragging
  /\ Len(canvasImages) >= 2
  /\ canvasImages[Len(canvasImages)].id = activeImageId
  /\ canvasImages[Len(canvasImages)].obj < canvasImages[1].obj

\* The ids a delete or a duplicate may be asked for.
ProbeIds == 1..(MaxClock + MaxBatch)

\* C9: deleteLayer(id) removes exactly the one layer with that id and keeps the
\* others in their order; it clears the active id if and only if id was the
\* active id; with an id that is not in the stack it changes nothing.
C9_DeleteRemovesExactlyOne ==
  \A id \in ProbeIds :
    LET ed == DeleteLayer(Editor, id) IN
    /\ IF id \in IdsOf(canvasImages)
       THEN \E k \in DOMAIN canvasImages :
              /\ canvasImages[k].id = id
              /\ ed.canvasImages = RemoveAt(canvasImages, k)
       ELSE ed.canvasImages = canvasImages /\ ed.activeImageId = activeImageId
    /\ IF activeImageId = id
       THEN ed.activeImageId = NoId
       ELSE ed.activeImageId = activeImageId

\* C10: duplicateLayer(id) adds exactly one layer, right after the source, with
\* an id that no layer of the stack has, at an offset from the source, with a
\* name derived from the source name and the size, visibility, lock and bitmap
\* of the source; the layers that were there keep attributes and order.
C10_DuplicateAddsFreshCopy ==
  \A t \in ClockReadings :
    \A i \in DOMAIN canvasImages :
      i = FindIndex(canvasImages, canvasImages[i].id) =>
        LET source == canvasImages[i]
            ed == DuplicateLayer(Editor, source.id, t, created + 1)
            copy == ed.canvasImages[i + 1]
        IN /\ Len(ed.canvasImages) = Len(canvasImages) + 1
           /\ RemoveAt(ed.canvasImages, i + 1) = canvasImages
           /\ copy.id \notin IdsOf(canvasImages)
           /\ copy.x = source.x + DuplicateOffset
           /\ copy.y = source.y + DuplicateOffset
           /\ copy.name = source.name \o <<"copy">>
           /\ copy.width = source.width /\ copy.height = source.height
           /\ copy.isVisible = source.isVisible
           /\ copy.isLocked = source.isLocked
           /\ copy.img = source.img

\* The stack without the layer object o.
WithoutObj(images, o) == SelectSeq(images, LAMBDA img : img.obj # o)

\* The stack the drop listener leaves when the list item of the layer at index
\* d is dropped on the list item of the layer at index g.
AfterDrop(d, g) ==
  IF canvasImages[d].id = canvasImages[g].id
  THEN canvasImages
  ELSE DropOrder(canvasImages, canvasImages[d].id, canvasImages[g].id)

\* C11: dropping the list item of a layer on the list item of another layer of
\* the stack leaves the dragged layer at the index right after the target,
\* keeps the other layers in their order, and keeps every layer exactly once.
C11_ReorderPlacesAfterTarget ==
  \A d, g \in DOMAIN canvasImages :
    (d # g /\ {canvasImages[d].obj, canvasImages[g].obj} \subseteq Range(layerItems)) =>
      LET dragged == canvasImages[d].obj
          target == canvasImages[g].obj
          images == AfterDrop(d, g)
      IN /\ Len(images) = Len(canvasImages)
         /\ Range(images) = Range(canvasImages)
         /\ HasObj(images, dragged) /\ HasObj(images, target)
         /\ IndexOfObj(images, dragged) = IndexOfObj(images, target) + 1
         /\ WithoutObj(images, dragged) = WithoutObj(canvasImages, dragged)

\* C12 as stated: while the stack holds layers, no step changes the logical
\* size of the canvas, unless the step clears the stack.
C12_CanvasSizeFixedWithLayers ==
  [][ (canvasImages # <<>> /\ canvasImages' # <<>>) => canvas' = canvas ]_vars

\* C12 as amended: the logical size of the canvas is changed by an aspect-ratio
\* selection only, with layers in the stack or without; the selection sets it
\* to an entry of the menu and changes no layer, and no insertion, pointer
\* event, panel command or clear changes it.
C12_CanvasSizeSetByMenuOnly ==
  [][ canvas' # canvas =>
        /\ canvas' \in CanvasMenu
        /\ UNCHANGED <<stackVars, gestureVars, loads, layerItems, created, issued>>
    ]_vars

\* The size of the canvas was changed while the stack held a layer, which is
\* still where its insertion on the first canvas put it.
C12_Witness ==
  /\ canvas # DefaultCanvas
  /\ canvasImages # <<>>
  /\ canvasImages[1].x = (DefaultCanvas.width - canvasImages[1].width) \div 2
  /\ canvasImages[1].y = (DefaultCanvas.height - canvasImages[1].height) \div 2

\* C13: flatten paints the visible layers and only them, back to front, each at
\* its x, y, width and height, on a surface of the logical size of the canvas;
\* locking or unlocking layers does not change what is painted.
C13_FlattenPaintsVisible ==
  LET flat == Flatten(canvasImages, canvas)
      visible == SelectSeq(canvasImages, LAMBDA image : image.isVisible)
      relocked(L) == [i \in DOMAIN canvasImages |->
                        [canvasImages[i] EXCEPT !.isLocked = (i \in L)]]
  IN /\ flat.width = canvas.width /\ flat.height = canvas.height
     /\ Len(flat.calls) = Len(visible)
     /\ \A k \in DOMAIN visible :
          /\ flat.calls[k].img = visible[k].img
          /\ Geometry(flat.calls[k]) = Geometry(visible[k])
     /\ \A L \in SUBSET DOMAIN canvasImages :
          Flatten(relocked(L), canvas) = flat
     /\ (requests # <<>> /\ requests[Len(requests)].kind = "compose")
          => requests[Len(requests)].image = composite

\* A stack with a hidden layer and a locked visible layer has been flattened
\* and sent.
C13_Witness ==
  /\ composite # NoComposite
  /\ composite = Flatten(canvasImages, canvas)
  /\ requests # <<>> /\ requests[Len(requests)].kind = "compose"
  /\ \E i \in DOMAIN canvasImages : ~canvasImages[i].isVisible
  /\ \E i \in DOMAIN canvasImages :
       canvasImages[i].isVisible /\ canvasImages[i].isLocked
  /\ Len(composite.calls) = 1

\* C14: a submission of the stack with no visible layer, the stack being empty
\* or all its layers hidden, is refused: no bitmap is flattened, no request is
\* sent, and the failure is shown as the output.
C14_EmptyCompositionRefused ==
  (\A i \in DOMAIN canvasImages : ~canvasImages[i].isVisible) =>
    LET out == EditImage(canvasImages, canvas, Outputs) IN
    /\ out.composite = composite
    /\ out.requests = requests
    /\ out.textOutput = "NeedVisibleImage"
    /\ out.workspace = "output"
    /\ (Len(canvasImages) > 0 =>
          \A hasPrompt \in BOOLEAN, hasReference \in BOOLEAN :
            GenerateClick(canvasImages, canvas, Outputs, "gemini",
                          hasPrompt, hasReference) = out)

\* A submission of a stack whose layers are all hidden has been refused.
C14_Witness ==
  /\ canvasImages # <<>>
  /\ \A i \in DOMAIN canvasImages : ~canvasImages[i].isVisible
  /\ textOutput = "NeedVisibleImage"
  /\ workspace = "output"
  /\ requests = <<>>
  /\ composite = NoComposite

\* C15: normalize draws the image no wider and no higher than the target, with
\* drawWidth : drawHeight equal to the natural aspect ratio, and centred: the
\* margins left and right are equal, and so are the margins above and below.
C15_NormalizeFitsAndCentres ==
  sizing.op = "normalized" =>
    LET rect == sizing.rect
        img == sizing.img
        target == sizing.target
    IN /\ QLeq(rect.width, Q(target.width, 1))
       /\ QLeq(rect.height, Q(target.height, 1))
       /\ rect.width.n * rect.height.d * img.naturalHeight
            = rect.height.n * rect.width.d * img.naturalWidth
       /\ QEq(rect.x, Q(target.width * rect.width.d - rect.width.n, 2 * rect.width.d))
       /\ QEq(rect.y, Q(target.height * rect.height.d - rect.height.n,
                        2 * rect.height.d))
       /\ rect.x.n >= 0 /\ rect.y.n >= 0

\* An image was normalized with a margin above and below it.
C15_Witness ==
  /\ sizing.op = "normalized"
  /\ sizing.rect.y.n > 0
  /\ sizing.rect.x.n = 0

\* C16: normalize never draws an image larger than its natural size.
C16_NormalizeNeverScalesUp ==
  sizing.op = "normalized" =>
    /\ QLeq(sizing.rect.width, Q(sizing.img.naturalWidth, 1))
    /\ QLeq(sizing.rect.height, Q(sizing.img.naturalHeight, 1))

\* C17: an image inserted on a canvas of W x H gets a layer no wider than W and
\* no higher than H, with width : height equal to the natural aspect ratio; an
\* image that fits the canvas gets its natural size.
C17_InsertedLayerFitsCanvas ==
  sizing.op = "inserted" =>
    LET rect == sizing.rect
        img == sizing.img
        target == sizing.target
    IN /\ QLeq(rect.width, Q(target.width, 1))
       /\ QLeq(rect.height, Q(target.height, 1))
       /\ rect.width.n * rect.height.d * img.naturalHeight
            = rect.height.n * rect.width.d * img.naturalWidth
       /\ (img.naturalWidth <= target.width /\ img.naturalHeight <= target.height)
            => /\ QEq(rect.width, Q(img.naturalWidth, 1))
               /\ QEq(rect.height, Q(img.naturalHeight, 1))

\* An image wider and higher than the canvas was inserted and scaled down to
\* the width of the canvas.
C17_Witness ==
  /\ sizing.op = "inserted"
  /\ sizing.img.naturalWidth > sizing.target.width
  /\ sizing.img.naturalHeight > sizing.target.height
  /\ QEq(sizing.rect.width, Q(sizing.target.width, 1))
  /\ ~QEq(sizing.rect.height, Q(sizing.target.height, 1))

\* A decode ends in this step: the status of a decode in flight changes, or a
\* settled decode leaves the decodes in flight.  (A step that starts decodes
\* makes loads longer.)
DecodeEnds == loads' # loads /\ Len(loads') <= Len(loads)

\* A decode of a batch ends in this step while another decode of the same
\* batch is still pending.
DecodeEndsInsideBatch ==
  /\ DecodeEnds
  /\ Len(loads') = Len(loads)
  /\ \E b \in DOMAIN loads' :
       /\ loads'[b].kind = "batch"
       /\ \E i \in DOMAIN loads'[b].status : loads'[b].status[i] = "pending"

\* The batch b leaves the decodes in flight in this step: its last decode ends.
BatchEnds ==
  /\ DecodeEnds
  /\ Len(loads') < Len(loads)
  /\ \E b \in DOMAIN loads : loads[b].kind = "batch" /\ loads' = RemoveAt(loads, b)

\* C18: the stack and the active id are updated once per batch, after all its
\* decodes: a decode that ends while another decode of its batch is pending
\* leaves the stack and the active id as they are.
C18_BatchUpdatesStateOnce ==
  [][ DecodeEndsInsideBatch => UNCHANGED stackVars ]_vars

\* C19: a batch in which a decode failed still completes with the layer list
\* showing the stack: when the last decode of a batch ends, the layer list is
\* the list of the layers of the stack.
C19_BatchCompletesRendered ==
  [][ BatchEnds => layerItems' = RenderLayerList(canvasImages') ]_vars

\* C20 as stated: no decode that ends changes the stack or the active id.
C20_NoDecodeChangesStack ==
  [][ DecodeEnds => UNCHANGED stackVars ]_vars

\* C20, amended: a decode that ends either leaves the stack and the active id
\* as they are, or puts exactly one new layer on top of the stack, leaves the
\* layers below as they are and makes the new layer the active one; it never
\* touches the gesture in progress.
C20_DecodeOnlyAppendsOneLayer ==
  [][ DecodeEnds =>
        /\ UNCHANGED gestureVars
        /\ \/ UNCHANGED stackVars
           \/ /\ Len(canvasImages') = Len(canvasImages) + 1
              /\ SubSeq(canvasImages', 1, Len(canvasImages)) = canvasImages
              /\ activeImageId' = canvasImages'[Len(canvasImages')].id ]_vars

\* One decode of a batch has ended and put its layer, now the active one, on
\* the stack; the other decode of the batch is pending.
C20_Witness ==
  /\ Len(canvasImages) = 1
  /\ activeImageId = canvasImages[1].id
  /\ \E b \in DOMAIN loads :
       /\ loads[b].kind = "batch"
       /\ \E i, j \in DOMAIN loads[b].status :
            /\ loads[b].status[i] = "loaded"
            /\ loads[b].status[j] = "pending"

\* C22: the controller is in exactly one of idle, dragging and resizing:
\* isDragging and isResizing are never both true, and isResizing is true only
\* while a handle is recorded.
C22_OneGestureState ==
  /\ ~(isDragging /\ isResizing)
  /\ isResizing => activeHandle # NoHandle

\* C23: a touch start or a touch move with more than one contact point leaves
\* the stack, the geometry of every layer, the active id and the gesture state
\* as they are, in every state and wherever the first contact is.
C23_MultiTouchIsNoOp ==
  \A touches \in 2..MaxTouches : \A pos \in Probes :
    /\ TouchStart(Editor, touches, pos) = Editor
    /\ TouchMove(Editor, touches, pos) = Editor

\* A gesture is open on a layer, and a touch start and a touch move with one
\* contact point at some position would both change the editor state.
C23_Witness ==
  /\ isDragging \/ isResizing
  /\ canvasImages # <<>>
  /\ \E pos \in Positions :
       /\ TouchStart(Editor, 1, pos) # Editor
       /\ TouchMove(Editor, 1, pos) # Editor

\* The layer an id resolves to, as canvasImages.find does: the first layer of
\* the stack with that id.  Only used with an id of the stack.
Resolve(images, id) == images[FindIndex(images, id)]

\* C24: no pointerDown makes an invisible layer the active one, brings an
\* invisible layer to the front or starts a drag or a resize on one: after
\* the press the active id is null or resolves to a visible layer, every
\* invisible layer is where it was in the stack below the visible ones that
\* moved, and no attribute of an invisible layer has changed.
C24_InvisibleNeverHit ==
  \A pos \in Probes :
    LET ed == HandleInteractionStart(Editor, pos) IN
    /\ ed.activeImageId # activeImageId =>
         \/ ed.activeImageId = NoId
         \/ /\ ed.activeImageId \in IdsOf(ed.canvasImages)
            /\ Resolve(ed.canvasImages, ed.activeImageId).isVisible
    /\ (ed.isDragging /\ ~isDragging) =>
         Resolve(ed.canvasImages, ed.activeImageId).isVisible
    /\ (ed.isResizing /\ ~isResizing) =>
         Resolve(ed.canvasImages, ed.activeImageId).isVisible
    /\ ed.canvasImages # canvasImages =>
         ed.canvasImages[Len(ed.canvasImages)].isVisible
    /\ \A i \in DOMAIN canvasImages :
         ~canvasImages[i].isVisible =>
           /\ HasObj(ed.canvasImages, canvasImages[i].obj)
           /\ LayerOf(ed.canvasImages, canvasImages[i].obj) = canvasImages[i]

\* C26: a pointerDown that lands on an unlocked visible layer, on no handle of
\* the active layer, makes the id of that layer the active id and moves the
\* layer to the last position of the stack; the other layers keep their
\* relative order, and every layer keeps its attributes.
C26_PressBringsToFront ==
  \A pos \in Probes :
    \A i \in DOMAIN canvasImages :
      (PressLandsOn(i, pos) /\ ~canvasImages[i].isLocked) =>
        LET ed == HandleInteractionStart(Editor, pos)
            n == Len(canvasImages)
        IN /\ ed.activeImageId = canvasImages[i].id
           /\ Len(ed.canvasImages) = n
           /\ ed.canvasImages[n] = canvasImages[i]
           /\ SubSeq(ed.canvasImages, 1, n - 1) = RemoveAt(canvasImages, i)

\* A press has moved a layer from below another layer to the top of the stack
\* and made it the active one: the layer on top was created before the layer
\* below it, and neither is locked.
C26_Witness ==
  /\ isDragging /\ ~isResizing
  /\ Len(canvasImages) = 2
  /\ canvasImages[2].obj < canvasImages[1].obj
  /\ canvasImages[2].id = activeImageId
  /\ canvasImages[1].id # activeImageId
  /\ ~canvasImages[1].isLocked /\ ~canvasImages[2].isLocked
  /\ canvasImages[1].isVisible /\ canvasImages[2].isVisible

\* The press at pos neither sets nor clears isDragging or isResizing, and leaves
\* the stack, with the order and every attribute of every layer, as it is.
OnlySelects(ed) ==
  /\ ed.canvasImages = canvasImages
  /\ ed.isDragging = isDragging
  /\ ed.isResizing = isResizing
  /\ ed.dragStart = dragStart

\* C27 as stated: a pointerDown whose topmost visible hit is a locked layer
\* makes the id of that layer the active id, leaves the stack order and the
\* geometry of every layer unchanged and enters neither dragging nor resizing.
C27_LockedHitOnlySelects ==
  \A pos \in Probes :
    \A i \in DOMAIN canvasImages :
      (VisibleUnder(pos) # {} /\ Highest(VisibleUnder(pos)) = i
         /\ canvasImages[i].isLocked) =>
        LET ed == HandleInteractionStart(Editor, pos) IN
        /\ ed.activeImageId = canvasImages[i].id
        /\ OnlySelects(ed)

\* C27 as amended: the same, for a press that is on no handle of an active
\* layer that is visible and unlocked; a press on such a handle starts a resize
\* of the active layer and does not select the locked layer under the point.
C27_LockedHitOnlySelectsUnlessHandle ==
  \A pos \in Probes :
    \A i \in DOMAIN canvasImages :
      (VisibleUnder(pos) # {} /\ Highest(VisibleUnder(pos)) = i
         /\ canvasImages[i].isLocked) =>
        LET ed == HandleInteractionStart(Editor, pos) IN
        IF OnActiveHandle(pos)
        THEN /\ ed.activeImageId = activeImageId
             /\ ed.isResizing
             /\ ed.canvasImages = canvasImages
        ELSE /\ ed.activeImageId = canvasImages[i].id
             /\ OnlySelects(ed)

\* A press from idle has selected a locked layer that lies above an unlocked
\* one under the same point: the locked layer is active, the controller is idle
\* and the unlocked layer that was created later is still below.
C27_Witness ==
  /\ ~isDragging /\ ~isResizing
  /\ Len(canvasImages) = 2
  /\ canvasImages[2].isLocked /\ canvasImages[2].isVisible
  /\ ~canvasImages[1].isLocked /\ canvasImages[1].isVisible
  /\ activeImageId = canvasImages[2].id
  /\ canvasImages[1].id # canvasImages[2].id
  /\ \E pos \in Positions :
       /\ Contains(canvasImages[1], pos) /\ Contains(canvasImages[2], pos)
       /\ ~OnActiveHandle(pos)

\* C28: a pointerDown on a handle of the active layer, when that layer is
\* visible and unlocked, sets isResizing, records that handle and leaves the
\* active id, the stack and the drag state as they are; when the active layer
\* is locked or invisible, a press on one of its handles never sets isResizing.
C28_HandlePressStartsResize ==
  \A pos \in Probes :
    LET ed == HandleInteractionStart(Editor, pos)
        a == FindIndex(canvasImages, activeImageId)
    IN a # 0 =>
         LET active == canvasImages[a]
             handle == GetHandleAtPos(active, pos.x, pos.y)
         IN handle # NoHandle =>
              IF active.isVisible /\ ~active.isLocked
              THEN /\ ed.isResizing
                   /\ ed.activeHandle = handle
                   /\ ed.activeImageId = activeImageId
                   /\ ed.canvasImages = canvasImages
                   /\ ed.isDragging = isDragging
                   /\ ed.dragStart = dragStart
              ELSE ed.isResizing = isResizing

\* A press on the se handle of the active layer has started a resize: the
\* controller is resizing with that handle, and the layer has its first size.
C28_Witness ==
  /\ isResizing /\ ~isDragging
  /\ activeHandle = "se"
  /\ \E i \in DOMAIN canvasImages :
       /\ canvasImages[i].id = activeImageId
       /\ canvasImages[i].isVisible /\ ~canvasImages[i].isLocked
       /\ GetHandleAtPos(canvasImages[i], 552, 532) = "se"

\* C29: a resize move that is rejected, because the width or the height it
\* computes is not above the minimum, leaves the layer as it is: x and y as
\* well as width and height, with each of the four handles.
C29_RejectedResizeChangesNothing ==
  \A pos \in Probes :
    \A i \in DOMAIN canvasImages :
      \A k \in DOMAIN Handles :
        ~(ComputedWidth(canvasImages[i], Handles[k], pos) > MinSize
            /\ ComputedHeight(canvasImages[i], Handles[k], pos) > MinSize) =>
          ResizeImage(canvasImages[i], Handles[k], pos) = canvasImages[i]

\* Displayed widths a layer may have had before a resize, whatever its bitmap:
\* its own, and a width that does not have the aspect ratio of the bitmap.
EarlierWidths(image) == { image.width, image.width + 2 * MinSize }

\* C30: after every resize move that is committed, with any handle and from any
\* displayed size before the move, width * naturalHeight = height * naturalWidth.
C30_CommittedResizeKeepsNaturalRatio ==
  \A pos \in Probes :
    \A i \in DOMAIN canvasImages :
      \A k \in DOMAIN Handles :
        \A w \in EarlierWidths(canvasImages[i]) :
          LET before == [canvasImages[i] EXCEPT !.width = w]
              after == ResizeImage(before, Handles[k], pos)
          IN (after.width # before.width \/ after.height # before.height) =>
               after.width * after.img.naturalHeight
                 = after.height * after.img.naturalWidth

\* A resize move was committed: the active layer of an open resize gesture has
\* a size that is not its first size, in the aspect ratio of its bitmap.
C30_Witness ==
  /\ isResizing
  /\ activeHandle # NoHandle
  /\ moves > 0
  /\ \E i \in DOMAIN canvasImages :
       /\ canvasImages[i].id = activeImageId
       /\ canvasImages[i].width # canvasImages[i].img.naturalWidth
       /\ canvasImages[i].width * canvasImages[i].img.naturalHeight
            = canvasImages[i].height * canvasImages[i].img.naturalWidth

\* C25: the logical position of a pointer event is, on each axis, the raw
\* position (client position minus the corner of the displayed canvas) times
\* logical size / displayed size; a mouse event and a touch event with one
\* contact at the same point get the same position; and the position divided
\* by the same scale factors is the raw position again.
C25_MappingScalesAndRoundTrips ==
  mapped.device \in {"mouse", "touch"} =>
    LET rawX == mapped.point.clientX - mapped.rect.left
        rawY == mapped.point.clientY - mapped.rect.top
        back == ToDisplay(mapped.pos, mapped.rect, mapped.cv)
    IN /\ mapped.pos.x.n * mapped.rect.width
            = rawX * mapped.cv.width * mapped.pos.x.d
       /\ mapped.pos.y.n * mapped.rect.height
            = rawY * mapped.cv.height * mapped.pos.y.d
       /\ mapped.pos = GetMousePos(mapped.point, mapped.rect, mapped.cv)
       /\ mapped.pos = GetTouchPos([touches |-> <<mapped.point>>],
                                   mapped.rect, mapped.cv)
       /\ QEq(back.x, Q(rawX, 1))
       /\ QEq(back.y, Q(rawY, 1))

\* A touch event was mapped on a canvas that is displayed with a horizontal
\* scale other than the vertical one, at a point that lies in neither corner.
C25_Witness ==
  /\ mapped.device = "touch"
  /\ mapped.cv.width * mapped.rect.height # mapped.cv.height * mapped.rect.width
  /\ mapped.pos.x.n > 0 /\ mapped.pos.y.n > 0
  /\ mapped.pos.x.d > 1

\* C21: every gesture that enters dragging or resizing returns to idle once
\* its pointer stream has ended, however the stream ends: the controller is
\* never left dragging or resizing for ever.
C21_GestureReturnsToIdle ==
  (isDragging \/ isResizing) ~> (~isDragging /\ ~isResizing)

\* The hit box of a corner, as the statement has it: a square of side
\* 1.5 x HANDLE_SIZE centred on the corner, bounds inclusive (sides doubled).
InBox(cx, cy, pos) ==
  /\ 2 * (pos.x - cx) <= 3 * (HANDLE_SIZE \div 2)
  /\ 2 * (cx - pos.x) <= 3 * (HANDLE_SIZE \div 2)
  /\ 2 * (pos.y - cy) <= 3 * (HANDLE_SIZE \div 2)
  /\ 2 * (cy - pos.y) <= 3 * (HANDLE_SIZE \div 2)

\* The handles, by their place in the order nw, ne, sw, se, whose hit box
\* holds the point.
BoxesAt(image, pos) ==
  { k \in 1..4 :
      InBox(image.x + (IF k \in {2, 4} THEN image.width ELSE 0),
            image.y + (IF k \in {3, 4} THEN image.height ELSE 0), pos) }

\* getHandleAtPos gave the first handle in the order nw, ne, sw, se whose hit
\* box holds the point, and none when no hit box holds it.
FirstInOrder ==
  LET boxes == BoxesAt(hit.image, hit.pos) IN
  IF boxes = {} THEN hit.handle = NoHandle
  ELSE \E k \in boxes :
         /\ hit.handle = <<"nw", "ne", "sw", "se">>[k]
         /\ \A j \in boxes : k <= j

\* C31 as stated: for a layer with width and height above the minimum, at most
\* one hit box holds any point, and getHandleAtPos gives the first handle in
\* the order nw, ne, sw, se whose hit box holds the point, none otherwise.
C31_HandleBoxesDisjoint ==
  hit.op = "tested" =>
    /\ (hit.image.width > MinSize /\ hit.image.height > MinSize) =>
         Cardinality(BoxesAt(hit.image, hit.pos)) <= 1
    /\ FirstInOrder

\* C31 as amended: at most one hit box holds a point when width and height are
\* both above the side of a hit box, 1.5 x HANDLE_SIZE; for every layer
\* getHandleAtPos gives the first handle in the order whose hit box holds the
\* point, none otherwise.
C31_HandleBoxesDisjointAboveBoxSide ==
  hit.op = "tested" =>
    /\ (2 * hit.image.width > 3 * HANDLE_SIZE
          /\ 2 * hit.image.height > 3 * HANDLE_SIZE) =>
         Cardinality(BoxesAt(hit.image, hit.pos)) <= 1
    /\ FirstInOrder

\* The handle test was made at a point in the hit boxes of two corners of a
\* layer whose width and height are above the minimum, and gave the first.
C31_Witness ==
  /\ hit.op = "tested"
  /\ hit.image.width > MinSize /\ hit.image.height > MinSize
  /\ BoxesAt(hit.image, hit.pos) = {1, 3}
  /\ hit.handle = "nw"

\* C32: an interaction end (mouse up or touch end), from any state of the
\* gesture, leaves isDragging false, isResizing false and no active handle,
\* and changes no layer, not the stack order and not the active id.
C32_EndResetsGestureOnly ==
  [][(HandleCanvasMouseUp \/ HandleCanvasTouchEnd) =>
       /\ ~isDragging' /\ ~isResizing' /\ activeHandle' = NoHandle
       /\ UNCHANGED <<canvasImages, activeImageId>>]_vars

\* A gesture that moved a layer has ended: the editor is idle again.
C32_Witness ==
  /\ moves > 0
  /\ activeImageId # NoId
  /\ ~isDragging /\ ~isResizing /\ activeHandle = NoHandle

\* The texts the output section shows for a submission that failed: the
\* messages of the precondition tests and the message of the catch clause.
FailureTexts == {"NeedVisibleImage", "NeedDetails", "NeedPromptOrReference", "ErrorOccurred"}

\* A step in which a submission fails: the click that a precondition refuses,
\* or the rejection of the request in flight.
SubmissionFails ==
  \/ \E model \in Models, hasPrompt \in BOOLEAN, hasReference \in BOOLEAN :
       HandleGenerateClick(model, hasPrompt, hasReference) /\ workspace' = "output"
  \/ ServiceSettles("rejected")

\* C33: a failed submission (a rejected service call or a refused
\* precondition) leaves the stack, the attributes of its layers, the active id
\* and the canvas size unchanged, and ends with one error shown in the output
\* section, with no further call to the service.
C33_FailedSubmissionIsTerminal ==
  [][SubmissionFails =>
       /\ UNCHANGED <<canvasImages, activeImageId, canvas>>
       /\ workspace' = "output"
       /\ textOutput' \in FailureTexts
       /\ Len(requests') = Len(requests)
       /\ \A r \in DOMAIN requests' :
            requests'[r].state = "sent" => requests[r].state = "sent"]_vars

\* The request that carried the flattened stack was rejected: the error is
\* shown and the stack is still there.
C33_Witness ==
  /\ workspace = "output"
  /\ textOutput = "ErrorOccurred"
  /\ requests # <<>> /\ requests[Len(requests)].state = "settled"
  /\ requests[Len(requests)].kind = "compose"
  /\ canvasImages # <<>>

\* C34: between the pointerDown that starts a drag or resize and the next
\* interaction end, a pointerMove changes the geometry of no layer but the one
\* the pointerDown landed on, whatever decode completions and panel commands
\* (select, duplicate, delete) come in between.
C34_MovesOnlyGrabbedLayer ==
  [][(stream # "none" /\ stream' = stream /\ moves' # moves) =>
       \A i \in DOMAIN canvasImages :
         Geometry(canvasImages'[i]) # Geometry(canvasImages[i]) =>
           canvasImages[i].obj = grabbed]_vars

\* C35: when a batch add completes, the layers it made are in the stack in
\* the order of the files of the batch, and the active layer is the layer of
\* the last file, in whatever order the decodes completed.
C35_BatchOrderIsFileOrder ==
  [][\A b \in 1..MaxLoads, i \in 1..MaxBatch, t \in ClockReadings :
       (ImgOnload(b, i, t) /\ CompletesBatch(b, i)) =>
         LET files == loads[b].files
             n == Len(files)
             top == Len(canvasImages')
         IN /\ \A k \in 1..n : canvasImages'[top - n + k].name = files[k].name
            /\ activeImageId' = canvasImages'[top].id]_vars

\* C36: a pointerMove (mouse move, or touch move with any number of contact
\* points) while no gesture is open changes no layer geometry, not the stack
\* order, not the active id and not the gesture state.
C36_IdleMoveIsNoOp ==
  (~isDragging /\ ~isResizing) =>
    \A pos \in Probes :
      /\ MouseMove(Editor, pos) = Editor
      /\ \A touches \in 1..MaxTouches : TouchMove(Editor, touches, pos) = Editor

\* No gesture is open, a layer was moved by an earlier gesture, and the active
\* layer is one that a move would change if a drag were open.
C36_Witness ==
  /\ ~isDragging /\ ~isResizing
  /\ moves > 0
  /\ \E pos \in Positions :
       HandleInteractionMove([Editor EXCEPT !.isDragging = TRUE], pos) # Editor

\* C37: a generate click puts the workspace in loading and the submission ends
\* in output; while the workspace is loading the generate button is disabled,
\* so that no second submission starts.
C37_LoadingDisablesGenerate ==
  workspace = "loading" => generateDisabled

====
